---- MODULE Spec2Model ----
(***************************************************************************)
(* A model of the engram memory engine: the SQLite storage backend, the    *)
(* Memory client, the SessionManager, the AutoSave controller and the      *)
(* tenant-aware REST layer.                                                *)
(*                                                                         *)
(* Database values are modelled as records; every SQL statement of the     *)
(* source is an operator from a database value to a database value, and    *)
(* every method is the composition of its statements.  The next-state     *)
(* relations built from these operators:                                   *)
(*   Spec      one SQLiteBackend behind one Memory client                  *)
(*   SpecLinks Spec with the link methods of the backend                   *)
(*   SpecApi   the REST handlers over the per-tenant database files        *)
(*   SpecAuto  one AutoSave instance over one SessionManager (sequential)  *)
(*   SpecConc  threads running AutoSave / SessionManager methods with the  *)
(*             interleavings the source allows                             *)
(*   SpecSess  checkpoints saved and loaded through one SessionManager     *)
(*   SpecGraph memories, links and the traversal get_graph                 *)
(*   SpecPrune memories, links and the calls that remove memories          *)
(*   SpecPrio  memories in several namespaces and the queries list,        *)
(*             search_text, search_vector and get_priority_memories        *)
(*   SpecRange store, update and import with importances in and out of     *)
(*             the range of MemoryEntry                                    *)
(*   SpecPort  export of one store imported into a second one              *)
(*   SpecFill  backfill_embeddings over memories without embedding         *)
(*   SpecCtx   ContextBuilder.build over ranked candidates                 *)
(*   SpecHub   the ConnectionManager of the event hub                      *)
(*   SpecGate  requests and WebSocket handshakes with every credential     *)
(*   SpecQuota writes of the REST layer into several namespaces            *)
(*   SpecRestore checkpoints read back by AutoSave.restore                 *)
(*   SpecUpd   update of content and importance on one store               *)
(*   SpecFlight requests racing on the caches of the REST layer            *)
(*   SpecOrder events broadcast to websockets whose sends may suspend      *)
(*   SpecFts   the FTS index kept by the triggers of the memories table    *)
(*   SpecRate  requests through the rate-limit middleware                  *)
(*   SpecFault one AutoSave instance whose checkpoint writes may raise     *)
(***************************************************************************)
EXTENDS Integers, Sequences, FiniteSets, TLC

\* ------------------------------------------------------------------------
\* Bounds of the model
\* ------------------------------------------------------------------------
MaxAccess == 2      \* access_count is explored up to this value
MaxSeq == 2         \* AUTOINCREMENT ids are explored up to this value

Contents == {"a", "b"}
Namespaces == {"default", "n1"}
Importances == {3, 7}
Relations == {"related"}
TtlDays == {0, 1}   \* ttl_days; 0 stands for None

\* the instants at which calls are made: the start, a day later and one second
\* on, and the day after that
Instants == <<[day |-> 0, tod |-> 0], [day |-> 1, tod |-> 1],
              [day |-> 2, tod |-> 0]>>

\* ------------------------------------------------------------------------
\* State
\* ------------------------------------------------------------------------
VARIABLES
    db,             \* the database file behind the one SQLiteBackend /
                    \* SessionManager of Spec, SpecLinks, SpecAuto, SpecConc
    now,            \* the UTC wall clock
    call,           \* the call (or request) made last
    ret,            \* what that call returned
    CLOUD_MODE,     \* server/auth/dependencies.py: CLOUD_MODE
    world,          \* SpecApi, SpecQuota: the database files under
                    \* _DATA_DIR; SpecHub, SpecGate: also the table of
                    \* the event hub; SpecFlight: the caches; SpecOrder:
                    \* the hub and the suspended sends; SpecRate: the
                    \* sliding windows
    alone,          \* SpecApi: for each tenant, the world it would see had
                    \* only its own requests been served
    saver,          \* the AutoSave instance
    mono,           \* time.monotonic()
    track,          \* history: the ticks and the ids tracked since the
                    \* checkpoint written last (SpecAuto), the ids handed
                    \* out and the calls begun (SpecConc), the export
                    \* taken (SpecPort), what the sockets received
                    \* (SpecHub, SpecGate, SpecOrder), the FTS index
                    \* (SpecFts), the requests served (SpecRate)
    threads         \* SpecConc, SpecFlight: the position and the locals
                    \* of each thread; SpecHub: the broadcasts under way

storeVars == <<db, now, call, ret>>

apiVars == <<CLOUD_MODE, world, alone>>

autoVars == <<saver, mono, track>>

vars == <<db, now, call, ret, CLOUD_MODE, world, alone, saver, mono, track,
          threads>>

NoCall == [op |-> "none"]

\* ------------------------------------------------------------------------
\* Time stamps as SQLite sees them: TEXT values compared byte by byte
\* ------------------------------------------------------------------------
SepT == 84          \* 'T', the date/time separator of datetime.isoformat()
SepSpace == 32      \* ' ', the separator of SQLite's datetime('now')

NullTime == [day |-> -1, tod |-> 0, sep |-> 0]

IsNull(t) == t.day = -1

\* datetime.isoformat() of the instant t
Iso(t) == [day |-> t.day, tod |-> t.tod, sep |-> SepT]

\* datetime('now') / CURRENT_TIMESTAMP at the instant t
Sql(t) == [day |-> t.day, tod |-> t.tod, sep |-> SepSpace]

\* a < b for two TEXT timestamps: date first, then the separator byte, then
\* the time of day
TextLess(a, b) ==
    \/ a.day < b.day
    \/ a.day = b.day /\ a.sep < b.sep
    \/ a.day = b.day /\ a.sep = b.sep /\ a.tod < b.tod

\* the instant e is at or before the instant t (what "expired" means)
AtOrBefore(e, t) == e.day < t.day \/ (e.day = t.day /\ e.tod <= t.tod)

PlusDays(t, d) == [day |-> t.day + d, tod |-> t.tod]

Max2(x, y) == IF x >= y THEN x ELSE y

Restrict(f, S) == [x \in S |-> f[x]]

\* ------------------------------------------------------------------------
\* core/dedup.py
\* ------------------------------------------------------------------------
content_hash(text) == <<"sha256-16", text>>

\* ------------------------------------------------------------------------
\* The database file: tables memories, memory_links, sessions, checkpoints
\* ------------------------------------------------------------------------
EmptyDb ==
    [rows |-> <<>>, seq |-> 0, links |-> <<>>, link_seq |-> 0,
     sessions |-> <<>>, checkpoints |-> <<>>]

None == -1

\* the predicate _NOT_EXPIRED evaluated at the instant t
NotExpired(row, t) ==
    IsNull(row.expires_at) \/ TextLess(Sql(t), row.expires_at)

\* a row as the caller sees it
Shown(d, i) ==
    [id |-> i, content |-> d.rows[i].content,
     expires_at |-> d.rows[i].expires_at]

NoRet == [op |-> "none", val |-> None, shown |-> {}, raised |-> FALSE]

\* ------------------------------------------------------------------------
\* storage/sqlite_backend.py: SQLiteBackend
\* Every operator takes the database value d and the instant t of the call
\* and yields [db |-> the database afterwards, ret |-> what the caller gets].
\* ------------------------------------------------------------------------
HashOwners(d, h) == {i \in DOMAIN d.rows : d.rows[i].content_hash = h}

\* INSERT INTO memories: AUTOINCREMENT gives an id above every id ever used
InsertRow(d, row) ==
    LET id == d.seq + 1
    IN  [d EXCEPT !.rows = [i \in DOMAIN d.rows \cup {id} |->
                                IF i = id THEN row ELSE d.rows[i]],
                   !.seq = id]

\* BumpDuplicate with the importance overwritten instead of maximised
BumpDuplicate_overwrite(d, h, importance) ==
    [d EXCEPT !.rows = [i \in DOMAIN d.rows |->
        IF d.rows[i].content_hash = h
        THEN [d.rows[i] EXCEPT !.access_count = @ + 1,
                                !.importance = importance]
        ELSE d.rows[i]]]

\* UPDATE memories SET access_count = access_count + 1, accessed_at = ...,
\*   importance = MAX(importance, ?) WHERE content_hash = ?
\* (accessed_at is not part of the rows of this model)
BumpDuplicate(d, h, importance) ==
    [d EXCEPT !.rows = [i \in DOMAIN d.rows |->
        IF d.rows[i].content_hash = h
        THEN [d.rows[i] EXCEPT !.access_count = @ + 1,
                                !.importance = Max2(@, importance)]
        ELSE d.rows[i]]]

\* SQLiteBackend.store(entry): the INSERT, or on the IntegrityError of the
\* UNIQUE content_hash the duplicate UPDATE and None
store(d, entry, t) ==
    IF HashOwners(d, entry.content_hash) # {}
    THEN [db |-> BumpDuplicate(d, entry.content_hash, entry.importance),
          ret |-> [op |-> "store", val |-> None, shown |-> {}, raised |-> FALSE]]
    ELSE [db |-> InsertRow(d, entry),
          ret |-> [op |-> "store", val |-> d.seq + 1, shown |-> {},
                   raised |-> FALSE]]

\* UPDATE memories SET access_count = access_count + 1, accessed_at = ...
\* WHERE id = ?
Touch(d, id) ==
    [d EXCEPT !.rows[id] = [@ EXCEPT !.access_count = @ + 1]]

\* SQLiteBackend.get(memory_id)
get(d, id, t) ==
    IF id \in DOMAIN d.rows /\ NotExpired(d.rows[id], t)
    THEN [db |-> Touch(d, id),
          ret |-> [op |-> "get", val |-> id, shown |-> {Shown(d, id)},
                   raised |-> FALSE]]
    ELSE [db |-> d,
          ret |-> [op |-> "get", val |-> None, shown |-> {}, raised |-> FALSE]]

\* SQLiteBackend.list_memories(namespace=ns): the rows selected (the order
\* and the LIMIT/OFFSET window are not modelled)
list_memories(d, ns, t) ==
    [db |-> d,
     ret |-> [op |-> "list", val |-> None,
              shown |-> {Shown(d, i) : i \in
                           {j \in DOMAIN d.rows :
                               /\ NotExpired(d.rows[j], t)
                               /\ d.rows[j].namespace = ns}},
              raised |-> FALSE]]

\* CascadeLinks with the cascade declared on source_id alone
CascadeLinks_source_only(d, gone) ==
    Restrict(d.links, {l \in DOMAIN d.links :
                          d.links[l].source_id \notin gone})

\* ON DELETE CASCADE of memory_links.source_id / target_id
CascadeLinks(d, gone) ==
    Restrict(d.links, {l \in DOMAIN d.links :
                          /\ d.links[l].source_id \notin gone
                          /\ d.links[l].target_id \notin gone})

DeleteRows(d, gone) ==
    [d EXCEPT !.rows = Restrict(d.rows, DOMAIN d.rows \ gone),
               !.links = CascadeLinks(d, gone)]

\* SQLiteBackend.delete(memory_id)
delete(d, id) ==
    [db |-> DeleteRows(d, {id} \cap DOMAIN d.rows),
     ret |-> [op |-> "delete",
              val |-> IF id \in DOMAIN d.rows THEN 1 ELSE 0,
              shown |-> {}, raised |-> FALSE]]

\* SQLiteBackend.delete_expired(namespace=ns):
\*   expires_at IS NOT NULL AND expires_at <= datetime('now') AND namespace = ?
ExpiredRows(d, ns, t) ==
    {i \in DOMAIN d.rows :
        /\ ~IsNull(d.rows[i].expires_at)
        /\ ~TextLess(Sql(t), d.rows[i].expires_at)
        /\ d.rows[i].namespace = ns}

delete_expired(d, ns, t) ==
    [db |-> DeleteRows(d, ExpiredRows(d, ns, t)),
     ret |-> [op |-> "delete_expired",
              val |-> Cardinality(ExpiredRows(d, ns, t)),
              shown |-> {}, raised |-> FALSE]]

\* A patch of update(): "-" and 0 stand for a field that is not passed
NoContent == "-"
NoImportance == None

\* the UPDATE memories SET ... WHERE id = ? of update()
ApplyPatch(d, id, patch) ==
    [d EXCEPT !.rows[id] =
        [@ EXCEPT !.content = IF patch.content = NoContent THEN @
                              ELSE patch.content,
                  !.content_hash = IF patch.content = NoContent THEN @
                                   ELSE content_hash(patch.content),
                  !.importance = IF patch.importance = NoImportance THEN @
                                 ELSE patch.importance]]

\* PatchCollides with a content_hash that is unique within a namespace
PatchCollides_in_namespace(d, id, patch) ==
    /\ patch.content # NoContent
    /\ \E j \in HashOwners(d, content_hash(patch.content)) \ {id} :
          d.rows[j].namespace = d.rows[id].namespace

\* the UNIQUE(content_hash) constraint as the UPDATE meets it
PatchCollides(d, id, patch) ==
    /\ patch.content # NoContent
    /\ HashOwners(d, content_hash(patch.content)) \ {id} # {}

\* SQLiteBackend.update(memory_id, **fields): get, UPDATE, get
update(d, id, patch, t) ==
    LET first == get(d, id, t)
    IN  IF first.ret.val = None
        THEN [db |-> first.db,
              ret |-> [op |-> "update", val |-> None, shown |-> {},
                       raised |-> FALSE]]
        ELSE IF patch.content = NoContent /\ patch.importance = NoImportance
        THEN [db |-> first.db,
              ret |-> [first.ret EXCEPT !.op = "update"]]
        ELSE IF PatchCollides(first.db, id, patch)
        THEN [db |-> first.db,
              ret |-> [op |-> "update", val |-> None, shown |-> {},
                       raised |-> TRUE]]
        ELSE LET second == get(ApplyPatch(first.db, id, patch), id, t)
             IN  [db |-> second.db,
                  ret |-> [second.ret EXCEPT !.op = "update"]]

\* link without the UNIQUE(source_id, target_id, relation) constraint
link_not_unique(d, s, tg, rel) ==
    IF s \notin DOMAIN d.rows \/ tg \notin DOMAIN d.rows
    THEN [db |-> d,
          ret |-> [op |-> "link", val |-> None, shown |-> {}, raised |-> FALSE]]
    ELSE LET id == d.link_seq + 1
         IN  [db |-> [d EXCEPT
                        !.links = [l \in DOMAIN d.links \cup {id} |->
                            IF l = id
                            THEN [source_id |-> s, target_id |-> tg,
                                  relation |-> rel]
                            ELSE d.links[l]],
                        !.link_seq = id],
              ret |-> [op |-> "link", val |-> id, shown |-> {},
                       raised |-> FALSE]]

\* SQLiteBackend.link(source_id, target_id, relation): None on the
\* IntegrityError of a FOREIGN KEY or of UNIQUE(source_id, target_id, relation)
link(d, s, tg, rel) ==
    IF \/ s \notin DOMAIN d.rows
       \/ tg \notin DOMAIN d.rows
       \/ \E l \in DOMAIN d.links :
             d.links[l] = [source_id |-> s, target_id |-> tg, relation |-> rel]
    THEN [db |-> d,
          ret |-> [op |-> "link", val |-> None, shown |-> {}, raised |-> FALSE]]
    ELSE LET id == d.link_seq + 1
         IN  [db |-> [d EXCEPT
                        !.links = [l \in DOMAIN d.links \cup {id} |->
                            IF l = id
                            THEN [source_id |-> s, target_id |-> tg,
                                  relation |-> rel]
                            ELSE d.links[l]],
                        !.link_seq = id],
              ret |-> [op |-> "link", val |-> id, shown |-> {},
                       raised |-> FALSE]]

\* SQLiteBackend.unlink(link_id)
unlink(d, id) ==
    [db |-> [d EXCEPT !.links = Restrict(@, DOMAIN @ \ {id})],
     ret |-> [op |-> "unlink",
              val |-> IF id \in DOMAIN d.links THEN 1 ELSE 0,
              shown |-> {}, raised |-> FALSE]]

\* SQLiteBackend.get_links(memory_id, direction="both", relation=None): the
\* memories whose content is attached as linked_content
get_links(d, id) ==
    [db |-> d,
     ret |-> [op |-> "get_links", val |-> None,
              shown |->
                {Shown(d, d.links[l].target_id) :
                    l \in {k \in DOMAIN d.links : d.links[k].source_id = id}}
                \cup
                {Shown(d, d.links[l].source_id) :
                    l \in {k \in DOMAIN d.links : d.links[k].target_id = id}},
              raised |-> FALSE]]

\* ------------------------------------------------------------------------
\* client.py: Memory
\* ------------------------------------------------------------------------
\* Memory.store(): expires_at from ttl_days, then the MemoryEntry with its
\* defaults (access_count = 0) and its hash
NewEntry(content, importance, ns, ttl, t) ==
    [content |-> content,
     importance |-> importance,
     namespace |-> ns,
     content_hash |-> content_hash(content),
     access_count |-> 0,
     expires_at |-> IF ttl > 0 THEN Iso(PlusDays(t, ttl)) ELSE NullTime]

Memory_store(d, content, importance, ns, ttl, t) ==
    store(d, NewEntry(content, importance, ns, ttl, t), t)

\* ------------------------------------------------------------------------
\* sessions.py: SessionManager (tables sessions and checkpoints of the same
\* database file).  The session_id, a time stamp and six random hex digits,
\* is modelled by the row number of the session.
\* ------------------------------------------------------------------------
NoProject == "NULL"     \* project = None

\* SELECT session_id FROM sessions WHERE status = 'active'
\*   AND (project = ? OR project IS NULL) ORDER BY started_at DESC LIMIT 1:
\* the sessions the query may return (the order among equal started_at is
\* not determined by the statement)
ActiveSessions(d, project) ==
    LET match == {s \in DOMAIN d.sessions :
                    /\ d.sessions[s].status = "active"
                    /\ \/ (project # NoProject /\ d.sessions[s].project = project)
                       \/ d.sessions[s].project = NoProject}
    IN  {s \in match : \A o \in match :
            ~TextLess(d.sessions[s].started_at, d.sessions[o].started_at)}

\* INSERT INTO sessions (session_id, project, status) VALUES (?, ?, 'active')
InsertSession(d, project, t) ==
    [d EXCEPT !.sessions = Append(@,
        [project |-> project, summary |-> "", status |-> "active",
         started_at |-> Sql(t), checkpoint_count |-> 0])]

\* SELECT MAX(checkpoint_num) FROM checkpoints WHERE session_id = ?, plus 1
NextCheckpointNum(d, sid) ==
    LET nums == {d.checkpoints[c].checkpoint_num :
                    c \in {k \in DOMAIN d.checkpoints :
                              d.checkpoints[k].session_id = sid}}
    IN  IF nums = {} THEN 1
        ELSE (CHOOSE n \in nums : \A o \in nums : o <= n) + 1

\* INSERT INTO checkpoints ...; UPDATE sessions SET checkpoint_count = ?,
\* summary = ? WHERE session_id = ?; commit
InsertCheckpoint(d, sid, num, summary, key_facts, t) ==
    [d EXCEPT !.checkpoints = Append(@,
                  [session_id |-> sid, checkpoint_num |-> num,
                   summary |-> summary, key_facts |-> key_facts,
                   created_at |-> Sql(t)]),
              !.sessions[sid] = [@ EXCEPT !.checkpoint_count = num,
                                          !.summary = summary]]

\* what _get_or_create_session may return: an active session, or 0 for
\* "none found, create one"
SessionChoices(d, project) ==
    IF ActiveSessions(d, project) = {} THEN {0} ELSE ActiveSessions(d, project)

\* SessionManager.save_checkpoint(project, summary, key_facts) run without
\* interruption, the session query having answered `found`
save_checkpoint(d, project, summary, key_facts, t, found) ==
    LET d1 == IF found = 0 THEN InsertSession(d, project, t) ELSE d
        sid == IF found = 0 THEN Len(d1.sessions) ELSE found
        num == NextCheckpointNum(d1, sid)
    IN  [db |-> InsertCheckpoint(d1, sid, num, summary, key_facts, t),
         ret |-> [op |-> "save_checkpoint", session_id |-> sid,
                  checkpoint_num |-> num, summary |-> summary,
                  project |-> project]]

\* SessionManager.load_checkpoint(project, session_id): the checkpoints the
\* query ... ORDER BY c.created_at DESC LIMIT 1 may return; empty for None
load_checkpoint(d, project, session_id) ==
    LET match == {c \in DOMAIN d.checkpoints :
                    IF session_id # None
                    THEN d.checkpoints[c].session_id = session_id
                    ELSE IF project # NoProject
                    THEN d.sessions[d.checkpoints[c].session_id].project
                            = project
                    ELSE TRUE}
    IN  {c \in match : \A o \in match :
            ~TextLess(d.checkpoints[c].created_at, d.checkpoints[o].created_at)}

\* ------------------------------------------------------------------------
\* server/api.py, server/auth/dependencies.py, server/tiers.py
\* A world is the state the handlers share: the database files.  The
\* module-level caches _memories and _session_managers hold, under a key,
\* the client that the key determines, and are not part of the state.
\* ------------------------------------------------------------------------
UserIds == {"u1", "u2"}     \* the uuid4 ids of two registered users

TierOf == [u1 |-> "pro", u2 |-> "enterprise"]

MaxMemoriesFree == 1        \* stands for FREE.max_memories (5000)
MaxMemoriesPro == 1         \* stands for PRO.max_memories (250000)
UnlimitedMemories == 0      \* ENTERPRISE.max_memories

\* get_tier(tier).max_memories
max_memories(tier) ==
    IF tier = "enterprise" THEN UnlimitedMemories
    ELSE IF tier = "pro" THEN MaxMemoriesPro
    ELSE MaxMemoriesFree

\* require_auth for a request with the valid credentials of user u
require_auth(u) ==
    IF CLOUD_MODE THEN [id |-> u, tier |-> TierOf[u]]
    ELSE [id |-> "local", tier |-> "enterprise"]

\* DbPath with the single shared database of local mode used in both modes
DbPath_shared(user) == <<"memory.db">>

\* db_path of _mem and _sess
DbPath(user) ==
    IF CLOUD_MODE THEN <<"tenants", user.id, "memory.db">>
    ELSE <<"memory.db">>

Paths == {<<"memory.db">>} \cup {<<"tenants", u, "memory.db">> : u \in UserIds}

\* the database files under _DATA_DIR
EmptyWorld == [files |-> [p \in Paths |-> EmptyDb]]

\* _mem(user, namespace): the Memory client cached under
\* cache_key = f"{user.id}:{namespace}", which the key determines
_mem(user, ns) == [db_path |-> DbPath(user), namespace |-> ns]

\* _sess(user): the db_path of the SessionManager cached under user.id
_sess(user) == DbPath(user)

\* Memory.stats()["total_memories"]: stats(namespace or self._namespace)
total_memories(d, ns, t) ==
    Cardinality({i \in DOMAIN d.rows :
                    NotExpired(d.rows[i], t) /\ d.rows[i].namespace = ns})

\* _check_memory_limit(user, mem) raises 403
MemoryLimitReached(w, user, mem, t) ==
    /\ max_memories(user.tier) > 0
    /\ total_memories(w.files[mem.db_path], mem.namespace, t)
          >= max_memories(user.tier)

NoNamespace == "-"      \* body.namespace = None

\* POST /v1/memories (the broadcast to the event hub is not part of a world)
store_memory(w, user, namespace, body, t) ==
    LET ns == IF body.namespace # NoNamespace THEN body.namespace
              ELSE namespace
        mem == _mem(user, ns)
        r == Memory_store(w.files[mem.db_path], body.content,
                          body.importance, ns, body.ttl_days, t)
    IN  IF MemoryLimitReached(w, user, mem, t)
        THEN [world |-> w, resp |-> [status |-> 403, body |-> {}]]
        ELSE [world |-> [w EXCEPT !.files[mem.db_path] = r.db],
              resp |-> [status |-> 200,
                        body |-> {[id |-> r.ret.val,
                                   duplicate |-> r.ret.val = None]}]]

\* Memory.import_memories(data): store every item, count the new rows
RECURSIVE ImportItems(_, _, _)
ImportItems(d, items, t) ==
    IF items = <<>> THEN [db |-> d, count |-> 0]
    ELSE LET r == store(d, Head(items), t)
             rest == ImportItems(r.db, Tail(items), t)
         IN  [db |-> rest.db,
              count |-> rest.count + (IF r.ret.val # None THEN 1 ELSE 0)]

\* POST /v1/import
import_memories(w, user, namespace, data, t) ==
    LET mem == _mem(user, namespace)
        r == ImportItems(w.files[mem.db_path], data, t)
    IN  [world |-> [w EXCEPT !.files[mem.db_path] = r.db],
         resp |-> [status |-> 200, body |-> {[imported |-> r.count]}]]

\* GET /v1/memories/{memory_id}
get_memory(w, user, namespace, id, t) ==
    LET mem == _mem(user, namespace)
        r == get(w.files[mem.db_path], id, t)
    IN  IF r.ret.val = None
        THEN [world |-> w, resp |-> [status |-> 404, body |-> {}]]
        ELSE [world |-> [w EXCEPT !.files[mem.db_path] = r.db],
              resp |-> [status |-> 200, body |-> r.ret.shown]]

\* GET /v1/memories: Memory.list() of the client's own namespace
api_list_memories(w, user, namespace, t) ==
    LET mem == _mem(user, namespace)
    IN  [world |-> w,
         resp |-> [status |-> 200,
                   body |-> list_memories(w.files[mem.db_path],
                                          mem.namespace, t).ret.shown]]

\* GET /v1/stats
get_stats(w, user, namespace, t) ==
    LET mem == _mem(user, namespace)
    IN  [world |-> w,
         resp |-> [status |-> 200,
                   body |-> {[total_memories |->
                       total_memories(w.files[mem.db_path],
                                      mem.namespace, t)]}]]

\* _check_pro(user) lets the request through
IsPro(user) == user.tier \in {"pro", "enterprise"}

\* POST /v1/sessions/save
session_save(w, user, project, summary, t) ==
    LET path == _sess(user)
        found == CHOOSE f \in SessionChoices(w.files[path], project) : TRUE
        r == save_checkpoint(w.files[path], project, summary, <<>>, t, found)
    IN  IF ~IsPro(user)
        THEN [world |-> w, resp |-> [status |-> 403, body |-> {}]]
        ELSE [world |-> [w EXCEPT !.files[path] = r.db],
              resp |-> [status |-> 200, body |-> {r.ret}]]

\* GET /v1/sessions/latest?project=...
session_load(w, user, project) ==
    LET path == _sess(user)
        d == w.files[path]
        got == load_checkpoint(d, project, None)
    IN  IF ~IsPro(user)
        THEN [world |-> w, resp |-> [status |-> 403, body |-> {}]]
        ELSE IF got = {}
        THEN [world |-> w, resp |-> [status |-> 404, body |-> {}]]
        ELSE [world |-> w,
              resp |-> [status |-> 200,
                        body |-> {d.checkpoints[c] : c \in got}]]

\* ------------------------------------------------------------------------
\* The parts of the state a specification does not use stay as they start
\* ------------------------------------------------------------------------
ApiIdle ==
    /\ CLOUD_MODE = FALSE
    /\ world = <<>>
    /\ alone = <<>>

AutoIdle ==
    /\ saver = <<>>
    /\ mono = 0
    /\ track = <<>>

StoreInit ==
    /\ db = EmptyDb
    /\ now = Instants[1]
    /\ call = NoCall
    /\ ret = NoRet
    /\ ApiIdle
    /\ AutoIdle
    /\ threads = <<>>

\* the calls on the store leave the rest of the state alone
StoreFrame == UNCHANGED <<apiVars, autoVars, threads>>

\* ------------------------------------------------------------------------
\* Spec: calls on one Memory client / SQLiteBackend
\* ------------------------------------------------------------------------
MaxLinkSeq == 1     \* link ids are explored up to this value

Ids == 1..MaxSeq

StoreNamespaces == {"default"}

LinkIds == 1..MaxLinkSeq

\* the rows whose access_count the call would raise stay within MaxAccess
CanBump(S) == \A i \in S : db.rows[i].access_count < MaxAccess

Memory_store_call ==
    \E c \in Contents, imp \in Importances, ns \in StoreNamespaces,
       ttl \in TtlDays :
        /\ IF HashOwners(db, content_hash(c)) = {}
           THEN db.seq < MaxSeq
           ELSE CanBump(HashOwners(db, content_hash(c)))
        /\ LET r == Memory_store(db, c, imp, ns, ttl, now)
           IN  db' = r.db /\ ret' = r.ret
        /\ call' = [op |-> "store", content |-> c, importance |-> imp]
        /\ UNCHANGED now
        /\ StoreFrame

Memory_get_call ==
    \E id \in Ids :
        /\ id \in DOMAIN db.rows => CanBump({id})
        /\ LET r == get(db, id, now)
           IN  db' = r.db /\ ret' = r.ret
        /\ call' = [op |-> "get"]
        /\ UNCHANGED now
        /\ StoreFrame

Memory_list_call ==
    \E ns \in Namespaces :
        /\ LET r == list_memories(db, ns, now)
           IN  db' = r.db /\ ret' = r.ret
        /\ call' = [op |-> "list"]
        /\ UNCHANGED now
        /\ StoreFrame

Memory_update_call ==
    \E id \in Ids, c \in Contents \cup {NoContent},
       imp \in Importances \cup {NoImportance} :
        /\ id \in DOMAIN db.rows => db.rows[id].access_count + 2 <= MaxAccess
        /\ LET r == update(db, id, [content |-> c, importance |-> imp], now)
           IN  db' = r.db /\ ret' = r.ret
        /\ call' = [op |-> "update"]
        /\ UNCHANGED now
        /\ StoreFrame

Memory_delete_call ==
    \E id \in Ids :
        /\ LET r == delete(db, id)
           IN  db' = r.db /\ ret' = r.ret
        /\ call' = [op |-> "delete"]
        /\ UNCHANGED now
        /\ StoreFrame

Memory_cleanup_expired_call ==
    \E ns \in Namespaces :
        /\ LET r == delete_expired(db, ns, now)
           IN  db' = r.db /\ ret' = r.ret
        /\ call' = [op |-> "cleanup_expired"]
        /\ UNCHANGED now
        /\ StoreFrame

link_call ==
    \E s \in Ids, tg \in Ids, rel \in Relations :
        /\ db.link_seq < MaxLinkSeq
        /\ LET r == link(db, s, tg, rel)
           IN  db' = r.db /\ ret' = r.ret
        /\ call' = [op |-> "link"]
        /\ UNCHANGED now
        /\ StoreFrame

unlink_call ==
    \E id \in LinkIds :
        /\ LET r == unlink(db, id)
           IN  db' = r.db /\ ret' = r.ret
        /\ call' = [op |-> "unlink"]
        /\ UNCHANGED now
        /\ StoreFrame

get_links_call ==
    \E id \in Ids :
        /\ LET r == get_links(db, id)
           IN  db' = r.db /\ ret' = r.ret
        /\ call' = [op |-> "get_links"]
        /\ UNCHANGED now
        /\ StoreFrame

\* time passes between two calls
Advance ==
    \E k \in 1..(Len(Instants) - 1) :
        /\ now = Instants[k]
        /\ now' = Instants[k + 1]
        /\ call' = NoCall
        /\ ret' = NoRet
        /\ UNCHANGED db
        /\ StoreFrame

Next ==
    \/ Memory_store_call
    \/ Memory_get_call
    \/ Memory_list_call
    \/ Memory_update_call
    \/ Memory_delete_call
    \/ Memory_cleanup_expired_call
    \/ Advance

Spec == StoreInit /\ [][Next]_vars

\* SpecLinks: the same calls and those on the link table
NextLinks ==
    \/ Next
    \/ link_call
    \/ unlink_call
    \/ get_links_call

SpecLinks == StoreInit /\ [][NextLinks]_vars

\* ------------------------------------------------------------------------
\* Claims on the store
\* ------------------------------------------------------------------------
ContentOwners(d, c) == {i \in DOMAIN d.rows : d.rows[i].content = c}

\* C1: a store() of a content that some memory r already holds creates no
\* row, returns None (the duplicate outcome), raises r.access_count by
\* exactly 1, sets r.importance to the maximum of its previous value and the
\* importance passed, and leaves every other memory as it was.
C1_DuplicateStore ==
    [][(call'.op = "store" /\ ContentOwners(db, call'.content) # {}) =>
          /\ DOMAIN db'.rows = DOMAIN db.rows
          /\ ret'.val = None
          /\ ~ret'.raised
          /\ \A i \in DOMAIN db.rows :
                IF i \in ContentOwners(db, call'.content)
                THEN /\ db'.rows[i].access_count = db.rows[i].access_count + 1
                     /\ db'.rows[i].importance =
                            Max2(db.rows[i].importance, call'.importance)
                     /\ db'.rows[i].content = db.rows[i].content
                ELSE db'.rows[i] = db.rows[i]]_vars

\* a duplicate store() has just raised the importance of one of two memories
C1_Witness ==
    /\ call.op = "store"
    /\ ret.val = None
    /\ Cardinality(DOMAIN db.rows) = 2
    /\ \E i \in ContentOwners(db, call.content) :
          /\ db.rows[i].importance = call.importance
          /\ db.rows[i].access_count = MaxAccess
          /\ ~IsNull(db.rows[i].expires_at)

\* the memory m, as returned, had expired when it was returned
ExpiredAt(m, t) == ~IsNull(m.expires_at) /\ AtOrBefore(m.expires_at, t)

\* C2: no read path (get, list, update's result, the linked content of
\* get_links) returns a memory whose expires_at is set and is <= now.
C2_NoExpiredRead == \A m \in ret.shown : ~ExpiredAt(m, now)

\* ------------------------------------------------------------------------
\* SpecApi: authenticated requests of the users on the REST handlers.  Each
\* request is served in the world, and also in the world `alone` of the
\* user who sent it.
\* ------------------------------------------------------------------------
MaxCheckpoints == 1     \* checkpoints per database file explored
MaxApiAccess == 1       \* access_count of a row explored through the API

DefaultImportance == 5  \* StoreRequest.importance

Projects == {"p"}

\* the namespace of the requests (the default of the X-Namespace header)
ApiNamespaces == {"default"}

\* the exports a client may send to POST /v1/import
ImportData ==
    {<<NewEntry("a", DefaultImportance, "default", 0, Instants[1])>>,
     <<NewEntry("a", DefaultImportance, "default", 0, Instants[1]),
       NewEntry("b", DefaultImportance, "default", 0, Instants[1])>>}

ApiInit ==
    /\ CLOUD_MODE \in BOOLEAN
    /\ world = EmptyWorld
    /\ alone = [u \in UserIds |-> EmptyWorld]
    /\ db = EmptyDb
    /\ now = Instants[1]
    /\ call = NoCall
    /\ ret = [status |-> 0]
    /\ AutoIdle
    /\ threads = <<>>

\* the world stays within the explored ids, access counts and checkpoints
Explored(w) ==
    \A p \in Paths :
        /\ w.files[p].seq <= MaxSeq
        /\ \A i \in DOMAIN w.files[p].rows :
              w.files[p].rows[i].access_count <= MaxApiAccess
        /\ Len(w.files[p].checkpoints) <= MaxCheckpoints

\* the worlds `alone` are followed in cloud mode: alone[u] serves the
\* requests of user u and no others
AloneAfter(u, w) == IF CLOUD_MODE THEN [alone EXCEPT ![u] = w] ELSE alone

ApiFrame == UNCHANGED <<db, now, CLOUD_MODE, autoVars, threads>>

store_memory_request ==
    \E u \in UserIds, ns \in ApiNamespaces, c \in Contents :
        LET body == [content |-> c, importance |-> DefaultImportance,
                     namespace |-> NoNamespace, ttl_days |-> 0]
            r == store_memory(world, require_auth(u), ns, body, now)
            g == store_memory(alone[u], require_auth(u), ns, body, now)
        IN  /\ Explored(r.world)
            /\ world' = r.world
            /\ alone' = AloneAfter(u, g.world)
            /\ call' = [op |-> "store_memory", user |-> u]
            /\ ret' = [status |-> r.resp.status]
            /\ ApiFrame

import_memories_request ==
    \E u \in UserIds, ns \in ApiNamespaces, data \in ImportData :
        LET r == import_memories(world, require_auth(u), ns, data, now)
            g == import_memories(alone[u], require_auth(u), ns, data, now)
        IN  /\ Explored(r.world)
            /\ world' = r.world
            /\ alone' = AloneAfter(u, g.world)
            /\ call' = [op |-> "import_memories", user |-> u]
            /\ ret' = [status |-> r.resp.status]
            /\ ApiFrame

get_memory_request ==
    \E u \in UserIds, ns \in ApiNamespaces, id \in Ids :
        LET r == get_memory(world, require_auth(u), ns, id, now)
            g == get_memory(alone[u], require_auth(u), ns, id, now)
        IN  /\ Explored(r.world)
            /\ world' = r.world
            /\ alone' = AloneAfter(u, g.world)
            /\ call' = [op |-> "get_memory", user |-> u]
            /\ ret' = [status |-> r.resp.status]
            /\ ApiFrame

list_memories_request ==
    \E u \in UserIds, ns \in ApiNamespaces :
        LET r == api_list_memories(world, require_auth(u), ns, now)
            g == api_list_memories(alone[u], require_auth(u), ns, now)
        IN  /\ Explored(r.world)
            /\ world' = r.world
            /\ alone' = AloneAfter(u, g.world)
            /\ call' = [op |-> "list_memories", user |-> u]
            /\ ret' = [status |-> r.resp.status]
            /\ ApiFrame

get_stats_request ==
    \E u \in UserIds, ns \in ApiNamespaces :
        LET r == get_stats(world, require_auth(u), ns, now)
            g == get_stats(alone[u], require_auth(u), ns, now)
        IN  /\ Explored(r.world)
            /\ world' = r.world
            /\ alone' = AloneAfter(u, g.world)
            /\ call' = [op |-> "get_stats", user |-> u]
            /\ ret' = [status |-> r.resp.status]
            /\ ApiFrame

session_save_request ==
    \E u \in UserIds, p \in Projects :
        LET r == session_save(world, require_auth(u), p, "s1", now)
            g == session_save(alone[u], require_auth(u), p, "s1", now)
        IN  /\ Explored(r.world)
            /\ world' = r.world
            /\ alone' = AloneAfter(u, g.world)
            /\ call' = [op |-> "session_save", user |-> u]
            /\ ret' = [status |-> r.resp.status]
            /\ ApiFrame

session_load_request ==
    \E u \in UserIds, p \in Projects :
        LET r == session_load(world, require_auth(u), p)
            g == session_load(alone[u], require_auth(u), p)
        IN  /\ Explored(r.world)
            /\ world' = r.world
            /\ alone' = AloneAfter(u, g.world)
            /\ call' = [op |-> "session_load", user |-> u]
            /\ ret' = [status |-> r.resp.status]
            /\ ApiFrame

NextApi ==
    \/ store_memory_request
    \/ import_memories_request
    \/ get_memory_request
    \/ list_memories_request
    \/ get_stats_request
    \/ session_save_request
    \/ session_load_request

SpecApi == ApiInit /\ [][NextApi]_vars

\* ------------------------------------------------------------------------
\* Claims on the REST layer
\* ------------------------------------------------------------------------
\* the answers of the read requests of user u in the world w
ReadAnswers(w, u) ==
    [get |-> [ns \in ApiNamespaces |-> [id \in Ids |->
                 get_memory(w, require_auth(u), ns, id, now).resp]],
     list |-> [ns \in ApiNamespaces |->
                 api_list_memories(w, require_auth(u), ns, now).resp],
     stats |-> [ns \in ApiNamespaces |->
                 get_stats(w, require_auth(u), ns, now).resp],
     session |-> [p \in Projects |->
                 session_load(w, require_auth(u), p).resp]]

C4_MemoryQuota ==
    CLOUD_MODE =>
        \A u \in UserIds :
            max_memories(TierOf[u]) > 0 =>
                Cardinality(DOMAIN world.files[DbPath(require_auth(u))].rows)
                    <= max_memories(TierOf[u])

\* ------------------------------------------------------------------------
\* autosave.py: AutoSaveConfig, Delta, AutoSave
\* ------------------------------------------------------------------------
IntervalSeconds == 1            \* stands for interval_seconds (1800)
DefaultMessageThreshold == 2    \* stands for message_threshold (500)
DefaultRamThresholdPct == 85    \* AutoSaveConfig.ram_threshold_pct

NoReason == "None"      \* should_save returns None; _last_trigger = None

\* Delta()
EmptyDelta ==
    [stored_ids |-> <<>>, updated_ids |-> <<>>, deleted_ids |-> <<>>,
     link_ids |-> <<>>]

\* Delta.total_changes
total_changes(delta) ==
    Len(delta.stored_ids) + Len(delta.updated_ids) + Len(delta.deleted_ids)
        + Len(delta.link_ids)

\* Delta.is_empty
is_empty(delta) == total_changes(delta) = 0

\* AutoSave(session_manager, project=project) constructed at monotonic time t
NewAutoSave(project, t) ==
    [project |-> project,
     config |-> [enabled |-> TRUE, interval_seconds |-> IntervalSeconds,
                 message_threshold |-> DefaultMessageThreshold,
                 ram_threshold_pct |-> DefaultRamThresholdPct],
     delta |-> EmptyDelta,
     message_count |-> 0,
     last_save_at |-> t,
     total_checkpoints |-> 0,
     last_trigger |-> NoReason]

\* AutoSave.configure(enabled=..., message_threshold=...)
configure(s, enabled, message_threshold) ==
    [s EXCEPT !.config.enabled = enabled,
              !.config.message_threshold = message_threshold]

\* AutoSave.track_store(memory_id)
track_store(s, memory_id) ==
    IF memory_id # None
    THEN [s EXCEPT !.delta.stored_ids = Append(@, memory_id)]
    ELSE s

\* AutoSave.track_update(memory_id)
track_update(s, memory_id) ==
    [s EXCEPT !.delta.updated_ids = Append(@, memory_id)]

\* AutoSave.track_delete(memory_id)
track_delete(s, memory_id) ==
    [s EXCEPT !.delta.deleted_ids = Append(@, memory_id)]

\* AutoSave.track_link(link_id)
track_link(s, link_id) ==
    IF link_id # None
    THEN [s EXCEPT !.delta.link_ids = Append(@, link_id)]
    ELSE s

\* AutoSave.track_message()
track_message(s) == [s EXCEPT !.message_count = @ + 1]

\* should_save with the message trigger fired above the threshold only
should_save_above(s, t, ram_pct) ==
    IF ~s.config.enabled THEN NoReason
    ELSE IF is_empty(s.delta) /\ s.message_count = 0 THEN NoReason
    ELSE IF ram_pct # None /\ ram_pct >= s.config.ram_threshold_pct
    THEN "ram_threshold"
    ELSE IF s.message_count > s.config.message_threshold
    THEN "message_threshold"
    ELSE IF t - s.last_save_at >= s.config.interval_seconds THEN "timer"
    ELSE NoReason

\* should_save with the RAM trigger tested after the message count
should_save_ram_last(s, t, ram_pct) ==
    IF ~s.config.enabled THEN NoReason
    ELSE IF is_empty(s.delta) /\ s.message_count = 0 THEN NoReason
    ELSE IF s.message_count >= s.config.message_threshold
    THEN "message_threshold"
    ELSE IF ram_pct # None /\ ram_pct >= s.config.ram_threshold_pct
    THEN "ram_threshold"
    ELSE IF t - s.last_save_at >= s.config.interval_seconds THEN "timer"
    ELSE NoReason

\* AutoSave.should_save(ram_pct=ram_pct) at monotonic time t
should_save(s, t, ram_pct) ==
    IF ~s.config.enabled THEN NoReason
    ELSE IF is_empty(s.delta) /\ s.message_count = 0 THEN NoReason
    ELSE IF ram_pct # None /\ ram_pct >= s.config.ram_threshold_pct
    THEN "ram_threshold"
    ELSE IF s.message_count >= s.config.message_threshold
    THEN "message_threshold"
    ELSE IF t - s.last_save_at >= s.config.interval_seconds THEN "timer"
    ELSE NoReason

\* Delta.to_dict(): total_changes is a number; the four lists of the dict
\* are the delta's own lists, read where the dict is used
to_dict(delta) == [total_changes |-> total_changes(delta)]

NoCheckpoint == [none |-> TRUE]     \* tick returns None

\* the f-strings of checkpoint(): summary, and key_facts with the lists as
\* they read when the string is built
change_summary(s, reason) ==
    [reason |-> reason,
     parts |-> <<Len(s.delta.stored_ids), Len(s.delta.updated_ids),
                 Len(s.delta.deleted_ids), Len(s.delta.link_ids)>>,
     msgs |-> s.message_count]

key_facts(s, reason) ==
    [trigger |-> reason, delta |-> s.delta,
     total_changes |-> total_changes(s.delta),
     messages_since_last_save |-> s.message_count]

\* "Reset counters" of checkpoint() at monotonic time t
reset_counters(s, reason, t) ==
    [s EXCEPT !.delta = EmptyDelta,
              !.message_count = 0,
              !.last_save_at = t,
              !.total_checkpoints = @ + 1,
              !.last_trigger = reason]

\* checkpoint() that leaves message_count as it is
checkpoint_keeps_count(s, d, reason, t, wall, found) ==
    LET delta_summary == to_dict(s.delta)
        r == save_checkpoint(d, s.project, change_summary(s, reason),
                             key_facts(s, reason), wall, found)
        s1 == [reset_counters(s, reason, t) EXCEPT
                  !.message_count = s.message_count]
    IN  [saver |-> s1, db |-> r.db,
         ret |-> [session_id |-> r.ret.session_id,
                  checkpoint_num |-> r.ret.checkpoint_num,
                  reason |-> reason,
                  delta |-> [lists |-> s1.delta,
                             total_changes |-> delta_summary.total_changes]]]

\* AutoSave.checkpoint(reason) run without interruption at monotonic time
\* t and wall-clock time wall; result["delta"] holds the delta's own lists
checkpoint(s, d, reason, t, wall, found) ==
    LET delta_summary == to_dict(s.delta)
        r == save_checkpoint(d, s.project, change_summary(s, reason),
                             key_facts(s, reason), wall, found)
        s1 == reset_counters(s, reason, t)
    IN  [saver |-> s1, db |-> r.db,
         ret |-> [session_id |-> r.ret.session_id,
                  checkpoint_num |-> r.ret.checkpoint_num,
                  reason |-> reason,
                  delta |-> [lists |-> s1.delta,
                             total_changes |-> delta_summary.total_changes]]]

\* tick() that does not count the message
tick_uncounted(s, d, ram_pct, t, wall, found) ==
    LET reason == should_save(s, t, ram_pct)
    IN  IF reason # NoReason THEN checkpoint(s, d, reason, t, wall, found)
        ELSE [saver |-> s, db |-> d, ret |-> NoCheckpoint]

\* AutoSave.tick(ram_pct=ram_pct)
tick(s, d, ram_pct, t, wall, found) ==
    LET s1 == track_message(s)
        reason == should_save(s1, t, ram_pct)
    IN  IF reason # NoReason THEN checkpoint(s1, d, reason, t, wall, found)
        ELSE [saver |-> s1, db |-> d, ret |-> NoCheckpoint]

\* AutoSave.restore(): load_checkpoint(project=self._project)
restore(s, d) == load_checkpoint(d, s.project, None)

\* ------------------------------------------------------------------------
\* SpecAuto: one AutoSave instance over a SessionManager, its methods called
\* one after another.  `track` counts, for the claims, the ticks since
\* message_count was last 0, the ids tracked since the last checkpoint, and
\* whether only ticks and id tracking happened since message_count was 0.
\* ------------------------------------------------------------------------
MaxDelta == 1       \* ids tracked between two checkpoints
MaxMessages == 2    \* message_count explored
MaxMono == 1        \* monotonic clock readings 0..MaxMono
MaxSaves == 2       \* the calls are followed up to this checkpoint

TrackIds == {1}
Thresholds == {1, 2}
RamReadings == {None, 50, 90}
Reasons == {"manual"}

AutoInit ==
    /\ saver = NewAutoSave("p", 0)
    /\ mono = 0
    /\ track = [ticks |-> 0, ids |-> 0, clean |-> TRUE]
    /\ db = EmptyDb
    /\ now = Instants[1]
    /\ call = NoCall
    /\ ret = NoCheckpoint
    /\ ApiIdle
    /\ threads = <<>>

AutoFrame == UNCHANGED <<now, apiVars, threads>>

\* fewer than MaxSaves checkpoints are written so far
Running == Len(db.checkpoints) < MaxSaves

\* id tracking: the count of ids after tracking id
Tracked(id) ==
    [track EXCEPT !.ids = IF id # None THEN @ + 1 ELSE @]

\* a checkpoint was written
Saved == [ticks |-> 0, ids |-> 0, clean |-> TRUE]

configure_call ==
    \E enabled \in BOOLEAN, n \in Thresholds :
        /\ Running
        /\ saver' = configure(saver, enabled, n)
        /\ track' = [track EXCEPT !.clean = @ /\ saver.message_count = 0]
        /\ call' = [op |-> "configure"]
        /\ ret' = NoCheckpoint
        /\ UNCHANGED <<db, mono>>
        /\ AutoFrame

track_store_call ==
    \E id \in TrackIds \cup {None} :
        /\ Running
        /\ total_changes(saver.delta) < MaxDelta
        /\ saver' = track_store(saver, id)
        /\ track' = Tracked(id)
        /\ call' = [op |-> "track_store"]
        /\ ret' = NoCheckpoint
        /\ UNCHANGED <<db, mono>>
        /\ AutoFrame

track_update_call ==
    \E id \in TrackIds :
        /\ Running
        /\ total_changes(saver.delta) < MaxDelta
        /\ saver' = track_update(saver, id)
        /\ track' = Tracked(id)
        /\ call' = [op |-> "track_update"]
        /\ ret' = NoCheckpoint
        /\ UNCHANGED <<db, mono>>
        /\ AutoFrame

track_delete_call ==
    \E id \in TrackIds :
        /\ Running
        /\ total_changes(saver.delta) < MaxDelta
        /\ saver' = track_delete(saver, id)
        /\ track' = Tracked(id)
        /\ call' = [op |-> "track_delete"]
        /\ ret' = NoCheckpoint
        /\ UNCHANGED <<db, mono>>
        /\ AutoFrame

track_link_call ==
    \E id \in TrackIds \cup {None} :
        /\ Running
        /\ total_changes(saver.delta) < MaxDelta
        /\ saver' = track_link(saver, id)
        /\ track' = Tracked(id)
        /\ call' = [op |-> "track_link"]
        /\ ret' = NoCheckpoint
        /\ UNCHANGED <<db, mono>>
        /\ AutoFrame

track_message_call ==
    /\ Running
    /\ saver.message_count < MaxMessages
    /\ saver' = track_message(saver)
    /\ track' = [track EXCEPT !.clean = FALSE]
    /\ call' = [op |-> "track_message"]
    /\ ret' = NoCheckpoint
    /\ UNCHANGED <<db, mono>>
    /\ AutoFrame

should_save_call ==
    \E ram_pct \in RamReadings :
        /\ Running
        /\ call' = [op |-> "should_save", ram_pct |-> ram_pct]
        /\ ret' = [reason |-> should_save(saver, mono, ram_pct)]
        /\ UNCHANGED <<saver, track, db, mono>>
        /\ AutoFrame

tick_call ==
    \E ram_pct \in RamReadings, found \in SessionChoices(db, saver.project) :
        LET r == tick(saver, db, ram_pct, mono, now, found)
        IN  /\ Running
            /\ saver.message_count < MaxMessages
            /\ saver' = r.saver
            /\ db' = r.db
            /\ track' = IF r.ret = NoCheckpoint
                        THEN [track EXCEPT !.ticks = @ + 1]
                        ELSE Saved
            /\ call' = [op |-> "tick", ram_pct |-> ram_pct,
                        nth |-> track.ticks + 1, clean |-> track.clean]
            /\ ret' = r.ret
            /\ UNCHANGED mono
            /\ AutoFrame

checkpoint_call ==
    \E reason \in Reasons, found \in SessionChoices(db, saver.project) :
        LET r == checkpoint(saver, db, reason, mono, now, found)
        IN  /\ Running
            /\ saver' = r.saver
            /\ db' = r.db
            /\ track' = Saved
            /\ call' = [op |-> "checkpoint", reason |-> reason]
            /\ ret' = r.ret
            /\ UNCHANGED mono
            /\ AutoFrame

restore_call ==
    /\ Running
    /\ call' = [op |-> "restore"]
    /\ ret' = [checkpoints |-> {db.checkpoints[c] : c \in restore(saver, db)}]
    /\ UNCHANGED <<saver, track, db, mono>>
    /\ AutoFrame

\* time.monotonic() moves on
Elapse ==
    /\ Running
    /\ mono < MaxMono
    /\ mono' = mono + 1
    /\ call' = NoCall
    /\ ret' = NoCheckpoint
    /\ UNCHANGED <<saver, track, db>>
    /\ AutoFrame

NextAuto ==
    \/ configure_call
    \/ track_store_call
    \/ track_update_call
    \/ track_delete_call
    \/ track_link_call
    \/ track_message_call
    \/ should_save_call
    \/ tick_call
    \/ checkpoint_call
    \/ restore_call
    \/ Elapse

SpecAuto == AutoInit /\ [][NextAuto]_vars

\* ------------------------------------------------------------------------
\* Claims on AutoSave
\* ------------------------------------------------------------------------
\* C5: should_save(ram_pct) returns None if autosave is disabled or if the
\* delta is empty and message_count = 0; otherwise "ram_threshold" if a RAM
\* reading is given and is at least ram_threshold_pct; otherwise
\* "message_threshold" if message_count is at least message_threshold;
\* otherwise "timer" if the monotonic time since the last save is at least
\* interval_seconds; otherwise None.
C5_ShouldSavePriority ==
    call.op = "should_save" =>
        LET c == saver.config
            Nothing == ~c.enabled
                          \/ (total_changes(saver.delta) = 0
                                 /\ saver.message_count = 0)
            RamHigh == call.ram_pct # None
                          /\ call.ram_pct >= c.ram_threshold_pct
            MsgsHigh == saver.message_count >= c.message_threshold
            TimerDue == mono - saver.last_save_at >= c.interval_seconds
        IN  /\ Nothing => ret.reason = NoReason
            /\ ~Nothing /\ RamHigh => ret.reason = "ram_threshold"
            /\ ~Nothing /\ ~RamHigh /\ MsgsHigh
                  => ret.reason = "message_threshold"
            /\ ~Nothing /\ ~RamHigh /\ ~MsgsHigh /\ TimerDue
                  => ret.reason = "timer"
            /\ ~Nothing /\ ~RamHigh /\ ~MsgsHigh /\ ~TimerDue
                  => ret.reason = NoReason

\* should_save answered "ram_threshold" while the message count and the
\* timer were due as well
C5_Witness ==
    /\ call.op = "should_save"
    /\ ret.reason = "ram_threshold"
    /\ saver.message_count >= saver.config.message_threshold
    /\ mono - saver.last_save_at >= saver.config.interval_seconds

\* C6: with autosave enabled, message_threshold = N, no RAM reading and
\* less than interval_seconds elapsed, counting the calls of tick from
\* message_count = 0: each of the first N-1 calls returns None and writes
\* no checkpoint; the N-th call writes one checkpoint and returns it with
\* reason "message_threshold" and delta.total_changes equal to the number
\* of ids tracked since the previous checkpoint, and leaves the delta empty
\* and message_count = 0.
C6_TickThreshold ==
    [][(/\ call'.op = "tick"
        /\ track.clean
        /\ saver.config.enabled
        /\ call'.ram_pct = None
        /\ mono - saver.last_save_at < saver.config.interval_seconds)
       => LET N == saver.config.message_threshold
          IN  /\ track.ticks + 1 < N
                    => /\ ret' = NoCheckpoint
                       /\ db'.checkpoints = db.checkpoints
              /\ track.ticks + 1 = N
                    => /\ ret' # NoCheckpoint
                       /\ Len(db'.checkpoints) = Len(db.checkpoints) + 1
                       /\ ret'.checkpoint_num
                            = db'.checkpoints[Len(db'.checkpoints)].checkpoint_num
                       /\ ret'.reason = "message_threshold"
                       /\ ret'.delta.total_changes = track.ids
                       /\ total_changes(saver'.delta) = 0
                       /\ saver'.message_count = 0
              /\ track.ticks + 1 <= N]_vars

\* the second tick after a checkpoint, with message_threshold = 2, wrote
\* the second checkpoint, one id having been tracked before the first
\* checkpoint and one after it
C6_Witness ==
    /\ call.op = "tick"
    /\ call.clean
    /\ call.nth = 2
    /\ call.ram_pct = None
    /\ ret # NoCheckpoint
    /\ ret.reason = "message_threshold"
    /\ ret.checkpoint_num = 2
    /\ ret.delta.total_changes = 1
    /\ db.checkpoints[1].key_facts.total_changes = 1

\* a step in which checkpoint() ran: called directly, or by tick
CheckpointRan ==
    \/ call'.op = "checkpoint"
    \/ call'.op = "tick" /\ ret' # NoCheckpoint

\* C7: every checkpoint(reason) writes exactly one checkpoint and leaves
\* the instance with an empty delta, message_count = 0, the last-save time
\* set to now, total_checkpoints increased by exactly 1 and last_trigger =
\* reason, also when the delta was empty and when autosave is disabled.
C7_CheckpointResets ==
    [][CheckpointRan
       => /\ Len(db'.checkpoints) = Len(db.checkpoints) + 1
          /\ SubSeq(db'.checkpoints, 1, Len(db.checkpoints)) = db.checkpoints
          /\ total_changes(saver'.delta) = 0
          /\ saver'.message_count = 0
          /\ saver'.last_save_at = mono
          /\ saver'.total_checkpoints = saver.total_checkpoints + 1
          /\ saver'.last_trigger = ret'.reason
          /\ call'.op = "checkpoint" => ret'.reason = call'.reason]_vars

\* checkpoint() was called with autosave disabled and an empty delta, and
\* wrote the second checkpoint of the instance
C7_Witness ==
    /\ call.op = "checkpoint"
    /\ ~saver.config.enabled
    /\ saver.total_checkpoints = 2
    /\ Len(db.checkpoints) = 2
    /\ db.checkpoints[2].key_facts.total_changes = 0
    /\ db.checkpoints[2].key_facts.messages_since_last_save > 0
    /\ saver.message_count = 0

\* ------------------------------------------------------------------------
\* SpecConc: the worker threads of the server calling one AutoSave instance
\* and its SessionManager at the same time.  The code takes no lock, so a
\* call is a sequence of steps - one per SQL statement or block of Python
\* between two statements - and the steps of the threads interleave.
\* ------------------------------------------------------------------------
MaxOps == 3         \* calls begun by the threads together

Threads == {1, 2}

Idle ==
    [pc |-> "idle", reason |-> NoReason, summary |-> <<>>,
     key_facts |-> <<>>, sid |-> 0, num |-> 0]

ConcInit ==
    /\ threads = [t \in Threads |-> Idle]
    /\ saver = NewAutoSave("p", 0)
    /\ db = EmptyDb
    /\ track = [next |-> 1, ops |-> 0]
    /\ mono = 0
    /\ now = Instants[1]
    /\ call = NoCall
    /\ ret = NoCheckpoint
    /\ ApiIdle

ConcFrame == UNCHANGED <<now, mono, call, ret, apiVars>>

\* thread t may begin a call
MayBegin(t) == threads[t].pc = "idle" /\ track.ops < MaxOps

\* track_store, track_update, track_delete, track_link of a new id: one
\* list.append each
track_store_step(t) ==
    /\ MayBegin(t)
    /\ saver' = track_store(saver, track.next)
    /\ track' = [next |-> track.next + 1, ops |-> track.ops + 1]
    /\ UNCHANGED <<db, threads>>
    /\ ConcFrame

track_update_step(t) ==
    /\ MayBegin(t)
    /\ saver' = track_update(saver, track.next)
    /\ track' = [next |-> track.next + 1, ops |-> track.ops + 1]
    /\ UNCHANGED <<db, threads>>
    /\ ConcFrame

track_delete_step(t) ==
    /\ MayBegin(t)
    /\ saver' = track_delete(saver, track.next)
    /\ track' = [next |-> track.next + 1, ops |-> track.ops + 1]
    /\ UNCHANGED <<db, threads>>
    /\ ConcFrame

track_link_step(t) ==
    /\ MayBegin(t)
    /\ saver' = track_link(saver, track.next)
    /\ track' = [next |-> track.next + 1, ops |-> track.ops + 1]
    /\ UNCHANGED <<db, threads>>
    /\ ConcFrame

\* tick(ram_pct): track_message() and should_save(); checkpoint(reason)
\* follows if a reason came back
tick_step(t) ==
    \E ram_pct \in {None, 90} :
        LET s1 == track_message(saver)
            reason == should_save(s1, mono, ram_pct)
        IN  /\ MayBegin(t)
            /\ saver' = s1
            /\ threads' = [threads EXCEPT ![t] =
                  IF reason # NoReason
                  THEN [Idle EXCEPT !.pc = "format", !.reason = reason]
                  ELSE Idle]
            /\ track' = [track EXCEPT !.ops = @ + 1]
            /\ UNCHANGED db
            /\ ConcFrame

\* checkpoint(reason="manual") is called
checkpoint_begin(t) ==
    /\ MayBegin(t)
    /\ threads' = [threads EXCEPT ![t] =
          [Idle EXCEPT !.pc = "format", !.reason = "manual"]]
    /\ track' = [track EXCEPT !.ops = @ + 1]
    /\ UNCHANGED <<saver, db>>
    /\ ConcFrame

\* checkpoint(): delta_summary, summary and key_facts are built from the
\* delta and message_count as they are now
checkpoint_format(t) ==
    /\ threads[t].pc = "format"
    /\ threads' = [threads EXCEPT ![t] =
          [threads[t] EXCEPT !.pc = "select_session",
                    !.summary = change_summary(saver, threads[t].reason),
                    !.key_facts = key_facts(saver, threads[t].reason)]]
    /\ UNCHANGED <<saver, db, track>>
    /\ ConcFrame

\* SessionManager.save_checkpoint(project, summary) is called directly
\* (POST /v1/sessions/save, a handler run in the thread pool)
save_checkpoint_begin(t) ==
    /\ MayBegin(t)
    /\ threads' = [threads EXCEPT ![t] =
          [Idle EXCEPT !.pc = "select_session", !.reason = "api",
                       !.summary = [text |-> "s1"]]]
    /\ track' = [track EXCEPT !.ops = @ + 1]
    /\ UNCHANGED <<saver, db>>
    /\ ConcFrame

\* _get_or_create_session: the SELECT
select_session(t) ==
    /\ threads[t].pc = "select_session"
    /\ \E found \in SessionChoices(db, saver.project) :
          threads' = [threads EXCEPT ![t] =
              IF found = 0 THEN [threads[t] EXCEPT !.pc = "insert_session"]
              ELSE [threads[t] EXCEPT !.pc = "select_max", !.sid = found]]
    /\ UNCHANGED <<saver, db, track>>
    /\ ConcFrame

\* _get_or_create_session: the INSERT, in a connection of its own
insert_session(t) ==
    /\ threads[t].pc = "insert_session"
    /\ db' = InsertSession(db, saver.project, now)
    /\ threads' = [threads EXCEPT ![t] =
          [threads[t] EXCEPT !.pc = "select_max", !.sid = Len(db'.sessions)]]
    /\ UNCHANGED <<saver, track>>
    /\ ConcFrame

\* save_checkpoint: SELECT MAX(checkpoint_num), read outside a transaction
select_max(t) ==
    /\ threads[t].pc = "select_max"
    /\ threads' = [threads EXCEPT ![t] =
          [threads[t] EXCEPT !.pc = "insert_checkpoint",
                    !.num = NextCheckpointNum(db, threads[t].sid)]]
    /\ UNCHANGED <<saver, db, track>>
    /\ ConcFrame

\* save_checkpoint: INSERT INTO checkpoints, UPDATE sessions, commit
insert_checkpoint(t) ==
    /\ threads[t].pc = "insert_checkpoint"
    /\ db' = InsertCheckpoint(db, threads[t].sid, threads[t].num,
                              threads[t].summary, threads[t].key_facts, now)
    /\ threads' = [threads EXCEPT ![t] =
          IF threads[t].reason = "api" THEN Idle ELSE [threads[t] EXCEPT !.pc = "reset"]]
    /\ UNCHANGED <<saver, track>>
    /\ ConcFrame

\* checkpoint(): "Reset counters"
checkpoint_reset(t) ==
    /\ threads[t].pc = "reset"
    /\ saver' = reset_counters(saver, threads[t].reason, mono)
    /\ threads' = [threads EXCEPT ![t] = Idle]
    /\ UNCHANGED <<db, track>>
    /\ ConcFrame

NextConc ==
    \E t \in Threads :
        \/ track_store_step(t)
        \/ track_update_step(t)
        \/ track_delete_step(t)
        \/ track_link_step(t)
        \/ tick_step(t)
        \/ checkpoint_begin(t)
        \/ checkpoint_format(t)
        \/ save_checkpoint_begin(t)
        \/ select_session(t)
        \/ insert_session(t)
        \/ select_max(t)
        \/ insert_checkpoint(t)
        \/ checkpoint_reset(t)

SpecConc == ConcInit /\ [][NextConc]_vars

\* ------------------------------------------------------------------------
\* Claims on concurrent calls
\* ------------------------------------------------------------------------
\* the delta holds id in one of its lists
Holds(delta, id) ==
    \E l \in {delta.stored_ids, delta.updated_ids, delta.deleted_ids,
              delta.link_ids} : \E i \in DOMAIN l : l[i] = id

\* the written checkpoints whose delta records id, and the current delta
\* if it holds id
Recordings(id) ==
    Cardinality({c \in DOMAIN db.checkpoints :
                    /\ "delta" \in DOMAIN db.checkpoints[c].key_facts
                    /\ Holds(db.checkpoints[c].key_facts.delta, id)})
        + (IF Holds(saver.delta, id) THEN 1 ELSE 0)

\* C8: when no call is under way, every id tracked so far is recorded in
\* the delta of exactly one written checkpoint or is still in the current
\* delta: none is lost and none is recorded twice.
C8_DeltaResetAtomic ==
    (\A t \in Threads : threads[t].pc = "idle")
        => \A id \in 1..(track.next - 1) : Recordings(id) = 1

\* the checkpoints of session sid
CheckpointsOf(sid) ==
    {c \in DOMAIN db.checkpoints : db.checkpoints[c].session_id = sid}

\* C9: the checkpoint_num values of the checkpoints of every session are
\* exactly 1..n without gap or repetition, the session's checkpoint_count
\* is n and its summary is the summary of the checkpoint numbered n.
C9_CheckpointNumbers ==
    \A sid \in DOMAIN db.sessions :
        LET n == Cardinality(CheckpointsOf(sid))
        IN  /\ {db.checkpoints[c].checkpoint_num : c \in CheckpointsOf(sid)}
                  = 1..n
            /\ db.sessions[sid].checkpoint_count = n
            /\ \A c \in CheckpointsOf(sid) :
                  db.checkpoints[c].checkpoint_num = n
                      => db.checkpoints[c].summary = db.sessions[sid].summary

\* C10: there is at most one active session per project.
C10_OneActiveSession ==
    \A p \in {saver.project} :
        Cardinality({sid \in DOMAIN db.sessions :
                        /\ db.sessions[sid].status = "active"
                        /\ db.sessions[sid].project = p}) <= 1

\* ------------------------------------------------------------------------
\* SpecSess: calls on one SessionManager, one after another, with time
\* passing between them or not
\* ------------------------------------------------------------------------
MaxSessCheckpoints == 3     \* checkpoints written to the database file

SessProjects == {"p", "q", NoProject}

\* the key_facts lists passed to save_checkpoint
FactLists == {<<>>, <<"f">>}

\* the session ids passed to load_checkpoint: None, and those of the
\* sessions that can exist
SessionIds == {None} \cup (1..MaxSessCheckpoints)

save_checkpoint_call ==
    \E project \in SessProjects, facts \in FactLists :
      \E found \in SessionChoices(db, project) :
        LET r == save_checkpoint(db, project, "s", facts, now, found)
        IN  /\ Len(db.checkpoints) < MaxSessCheckpoints
            /\ db' = r.db
            /\ call' = [op |-> "save_checkpoint", project |-> project,
                        key_facts |-> facts]
            /\ ret' = r.ret
            /\ UNCHANGED now
            /\ StoreFrame

load_checkpoint_call ==
    \E project \in SessProjects, session_id \in SessionIds :
        /\ call' = [op |-> "load_checkpoint", project |-> project,
                    session_id |-> session_id]
        /\ ret' = [op |-> "load_checkpoint",
                   checkpoints |->
                       {db.checkpoints[c] :
                           c \in load_checkpoint(db, project, session_id)}]
        /\ UNCHANGED <<db, now>>
        /\ StoreFrame

NextSess ==
    \/ save_checkpoint_call
    \/ load_checkpoint_call
    \/ Advance

SpecSess == StoreInit /\ [][NextSess]_vars

\* ------------------------------------------------------------------------
\* Claims on the SessionManager
\* ------------------------------------------------------------------------
\* the checkpoints of the sessions of project p
CheckpointsOfProject(p) ==
    {c \in DOMAIN db.checkpoints :
        db.sessions[db.checkpoints[c].session_id].project = p}

\* the checkpoint written last among S (the rows of the table are in the
\* order in which they were written)
WrittenLast(S) == {c \in S : \A o \in S : o <= c}

\* C11: load_checkpoint(session_id=s) returns the checkpoint of session s
\* written last, and load_checkpoint(project=p) the checkpoint written last
\* among all sessions of project p, whatever the time between the writes;
\* it returns not-found exactly when no matching checkpoint exists.
C11_LoadReturnsLast ==
    /\ \A s \in DOMAIN db.sessions :
          load_checkpoint(db, NoProject, s) = WrittenLast(CheckpointsOf(s))
    /\ \A p \in SessProjects \ {NoProject} :
          load_checkpoint(db, p, None) = WrittenLast(CheckpointsOfProject(p))

\* C12: right after save_checkpoint(project=p, ...) returns, for any
\* project p and any earlier history of the store, load_checkpoint(project=p)
\* returns the checkpoint just written, with the list that was passed in.
C12_SaveThenLoad ==
    [][(call'.op = "save_checkpoint" /\ call'.project # NoProject) =>
          /\ load_checkpoint(db', call'.project, None)
                = {Len(db'.checkpoints)}
          /\ db'.checkpoints[Len(db'.checkpoints)].key_facts
                = call'.key_facts]_vars

\* ------------------------------------------------------------------------
\* storage/sqlite_backend.py: SQLiteBackend.get_graph
\* ------------------------------------------------------------------------
MaxGraphDepth == 5      \* max_depth = min(max_depth, 5)

NoRelation == "-"       \* relation = None

Min2(x, y) == IF x <= y THEN x ELSE y

\* the link ids n, n-1, ..., 1: ORDER BY l.created_at DESC, the links
\* taken in the reverse of the order in which they were created
Descending(n) == [i \in 1..n |-> n + 1 - i]

\* get_links(current_id, direction="both", relation=relation) as get_graph
\* reads it: the outgoing links, then the incoming ones
links_both(d, id, relation) ==
    SelectSeq(Descending(d.link_seq),
              LAMBDA l : /\ l \in DOMAIN d.links
                         /\ d.links[l].source_id = id
                         /\ relation \in {NoRelation, d.links[l].relation})
    \o
    SelectSeq(Descending(d.link_seq),
              LAMBDA l : /\ l \in DOMAIN d.links
                         /\ d.links[l].target_id = id
                         /\ relation \in {NoRelation, d.links[l].relation})

\* Visited with the visited-set never consulted
Visited_never(st, id) == FALSE

\* "current_id in visited", "other_id not in visited"
Visited(st, id) == id \in st.visited

\* visited, seen_edges, nodes, edges, queue as get_graph starts, over the
\* database d
GraphStart(d, memory_id) ==
    [db |-> d, visited |-> {}, seen_edges |-> {}, nodes |-> <<>>,
     edges |-> <<>>, queue |-> <<[id |-> memory_id, depth |-> 0]>>,
     done |-> FALSE]

\* "for lnk in links": the edge is recorded once, the other end is queued
\* unless visited
RECURSIVE ExpandLinks(_, _, _, _)
ExpandLinks(st, links, current_id, depth) ==
    IF links = <<>> THEN st
    ELSE LET lnk == st.db.links[Head(links)]
             other_id == IF lnk.source_id = current_id THEN lnk.target_id
                         ELSE lnk.source_id
             st1 == IF Head(links) \notin st.seen_edges
                    THEN [st EXCEPT
                            !.seen_edges = @ \cup {Head(links)},
                            !.edges = Append(@,
                                [id |-> Head(links),
                                 source_id |-> lnk.source_id,
                                 target_id |-> lnk.target_id,
                                 relation |-> lnk.relation])]
                    ELSE st
             st2 == IF ~Visited(st1, other_id)
                    THEN [st1 EXCEPT !.queue =
                            Append(@, [id |-> other_id, depth |-> depth + 1])]
                    ELSE st1
         IN  ExpandLinks(st2, Tail(links), current_id, depth)

\* "while queue": the loop is followed for at most `fuel` iterations; done
\* says that it ended with the queue empty
RECURSIVE GraphLoop(_, _, _, _, _)
GraphLoop(st, max_depth, relation, t, fuel) ==
    IF st.queue = <<>> THEN [st EXCEPT !.done = TRUE]
    ELSE IF fuel = 0 THEN st
    ELSE LET current_id == Head(st.queue).id
             depth == Head(st.queue).depth
             popped == [st EXCEPT !.queue = Tail(@)]
             entry == get(popped.db, current_id, t)
             seen == [popped EXCEPT !.visited = @ \cup {current_id},
                                    !.db = entry.db]
             noded == [seen EXCEPT !.nodes =
                          Append(@, [id |-> current_id, depth |-> depth])]
         IN  IF Visited(st, current_id)
             THEN GraphLoop(popped, max_depth, relation, t, fuel - 1)
             ELSE IF entry.ret.val = None
             THEN GraphLoop(seen, max_depth, relation, t, fuel - 1)
             ELSE IF depth >= max_depth
             THEN GraphLoop(noded, max_depth, relation, t, fuel - 1)
             ELSE GraphLoop(
                     ExpandLinks(noded,
                                 links_both(noded.db, current_id, relation),
                                 current_id, depth),
                     max_depth, relation, t, fuel - 1)

\* the iterations the loop is followed for: one for the root and one for
\* each end of each link at each depth 0..MaxGraphDepth, and one more
GraphFuel(d) == 2 + 2 * Cardinality(DOMAIN d.links) * (MaxGraphDepth + 1)
                  * (Cardinality(DOMAIN d.rows) + 1)

\* SQLiteBackend.get_graph(memory_id, max_depth=max_depth, relation=relation)
get_graph(d, memory_id, max_depth, relation, t) ==
    LET st == GraphLoop(GraphStart(d, memory_id),
                        Min2(max_depth, MaxGraphDepth), relation, t,
                        GraphFuel(d))
    IN  [db |-> st.db,
         ret |-> [op |-> "get_graph", val |-> None, shown |-> {},
                  raised |-> FALSE, nodes |-> st.nodes, edges |-> st.edges,
                  root |-> memory_id, done |-> st.done]]

\* ------------------------------------------------------------------------
\* SpecGraph: memories, links between them and traversals of the graph.
\* The k-th memory stored holds the k-th content, and the second may be
\* given a ttl; the links asked for are those of GraphLinkRequests, any
\* number of times, a link being created after those that precede it in
\* the list.  The calls are followed until a traversal has raised the
\* access_count of a memory to MaxGraphAccess.
\* ------------------------------------------------------------------------
MaxGraphSeq == 3        \* memories stored
MaxGraphLinks == 5      \* links created
MaxGraphAccess == 1     \* access_count of a memory explored

GraphContents == <<"a", "b", "c">>

\* the ttl_days a content may be stored with
GraphTtlDays == <<{0}, TtlDays, {0}>>

GraphIds == 1..MaxGraphSeq

GraphLinkIds == 1..MaxGraphLinks

\* a chain, the link that closes it to a cycle, a second link of another
\* relation between the same pair, and a link of a memory to itself
GraphLinkRequests ==
    <<[source_id |-> 1, target_id |-> 2, relation |-> "related"],
      [source_id |-> 2, target_id |-> 3, relation |-> "related"],
      [source_id |-> 3, target_id |-> 1, relation |-> "related"],
      [source_id |-> 1, target_id |-> 2, relation |-> "causes"],
      [source_id |-> 1, target_id |-> 1, relation |-> "related"]>>

\* no link of the database was asked for by a request after the k-th
CreatedBefore(d, k) ==
    \A l \in DOMAIN d.links :
        \E j \in 1..k : GraphLinkRequests[j] = d.links[l]

GraphDepths == {0, 1, 7}

\* no memory has reached MaxGraphAccess
Untraversed ==
    \A i \in DOMAIN db.rows : db.rows[i].access_count < MaxGraphAccess

graph_store_call ==
    \E k \in DOMAIN GraphContents :
      \E ttl \in GraphTtlDays[k] :
        /\ Untraversed
        /\ k = db.seq + 1
        /\ db.seq < MaxGraphSeq
        /\ LET r == Memory_store(db, GraphContents[k], 3, "default", ttl, now)
           IN  db' = r.db /\ ret' = r.ret
        /\ call' = [op |-> "store"]
        /\ UNCHANGED now
        /\ StoreFrame

graph_link_call ==
    \E k \in DOMAIN GraphLinkRequests :
        /\ Untraversed
        /\ db.link_seq < MaxGraphLinks
        /\ CreatedBefore(db, k)
        /\ LET req == GraphLinkRequests[k]
               r == link(db, req.source_id, req.target_id, req.relation)
           IN  /\ db' = r.db
               /\ ret' = r.ret
               /\ call' = [op |-> "link", source_id |-> req.source_id,
                           target_id |-> req.target_id,
                           relation |-> req.relation]
        /\ UNCHANGED now
        /\ StoreFrame

graph_unlink_call ==
    \E id \in GraphLinkIds :
        /\ Untraversed
        /\ LET r == unlink(db, id)
           IN  db' = r.db /\ ret' = r.ret
        /\ call' = [op |-> "unlink"]
        /\ UNCHANGED now
        /\ StoreFrame

graph_delete_call ==
    \E id \in GraphIds :
        /\ Untraversed
        /\ LET r == delete(db, id)
           IN  db' = r.db /\ ret' = r.ret
        /\ call' = [op |-> "delete", id |-> id]
        /\ UNCHANGED now
        /\ StoreFrame

graph_cleanup_expired_call ==
    /\ Untraversed
    /\ LET r == delete_expired(db, "default", now)
       IN  db' = r.db /\ ret' = r.ret
    /\ call' = [op |-> "cleanup_expired"]
    /\ UNCHANGED now
    /\ StoreFrame

get_graph_call ==
    \E root \in GraphIds, max_depth \in GraphDepths,
       relation \in {NoRelation, "causes"} :
        LET r == get_graph(db, root, max_depth, relation, now)
        IN  /\ Untraversed
            /\ db' = r.db
            /\ ret' = r.ret
            /\ call' = [op |-> "get_graph", root |-> root,
                        max_depth |-> max_depth, relation |-> relation]
            /\ UNCHANGED now
            /\ StoreFrame

graph_advance ==
    /\ Untraversed
    /\ Advance

NextGraph ==
    \/ graph_store_call
    \/ graph_link_call
    \/ graph_unlink_call
    \/ graph_delete_call
    \/ graph_cleanup_expired_call
    \/ get_graph_call
    \/ graph_advance

SpecGraph == StoreInit /\ [][NextGraph]_vars

\* ------------------------------------------------------------------------
\* Claims on links and on the traversal of the graph
\* ------------------------------------------------------------------------
NodeIds(r) == {r.nodes[i].id : i \in DOMAIN r.nodes}

EdgeIds(r) == {r.edges[i].id : i \in DOMAIN r.edges}

\* the links of d that join s to tg under rel
LinksOfTriple(d, s, tg, rel) ==
    {l \in DOMAIN d.links :
        d.links[l] = [source_id |-> s, target_id |-> tg, relation |-> rel]}

\* the memories joined to id by one link in either direction
Neighbours(d, id) ==
    {d.links[l].target_id : l \in {k \in DOMAIN d.links :
                                      d.links[k].source_id = id}}
    \cup
    {d.links[l].source_id : l \in {k \in DOMAIN d.links :
                                      d.links[k].target_id = id}}

\* C13: get_graph terminates for every finite set of memories and links -
\* cycles, self-links and parallel links of different relations included -
\* and its result holds each memory id at most once among the nodes and
\* each link id at most once among the edges.
C13_GraphTerminates ==
    call.op = "get_graph" =>
        /\ ret.done
        /\ Cardinality(NodeIds(ret)) = Len(ret.nodes)
        /\ Cardinality(EdgeIds(ret)) = Len(ret.edges)

\* the graph with the cycle 1 -> 2 -> 3 -> 1, the two links from 1 to 2 and
\* the link of 1 to itself has been traversed from 1 without a bound that
\* binds: three nodes, five edges
C13_Witness ==
    /\ call.op = "get_graph"
    /\ call.max_depth = 7
    /\ call.relation = NoRelation
    /\ call.root = 1
    /\ \A k \in DOMAIN GraphLinkRequests :
          \E l \in DOMAIN db.links : db.links[l] = GraphLinkRequests[k]
    /\ NodeIds(ret) = {1, 2, 3}
    /\ Len(ret.nodes) = 3
    /\ Len(ret.edges) = 5

\* C14: in every result of get_graph the source and the target of each
\* returned edge are both ids of returned nodes.
C14_EdgesJoinNodes ==
    call.op = "get_graph" =>
        \A i \in DOMAIN ret.edges :
            /\ ret.edges[i].source_id \in NodeIds(ret)
            /\ ret.edges[i].target_id \in NodeIds(ret)

\* C15: every node returned by get_graph(root, max_depth=d) has depth <=
\* min(d, 5), for every d >= 0; for d = 1 the returned nodes are exactly the
\* root and the memories joined to it by one link in either direction (the
\* root being a memory that is returned).
C15_GraphDepth ==
    call.op = "get_graph" =>
        /\ \A i \in DOMAIN ret.nodes :
              ret.nodes[i].depth <= Min2(call.max_depth, 5)
        /\ (/\ call.max_depth = 1
            /\ call.relation = NoRelation
            /\ call.root \in NodeIds(ret))
              => NodeIds(ret) = {call.root} \cup Neighbours(db, call.root)

\* C16: in every reachable state at most one link exists for each triple
\* (source_id, target_id, relation); link(s, t, r) returns a new link id
\* when no link (s, t, r) exists and both memories exist, returns the
\* duplicate outcome (None) and adds nothing when it exists already, and
\* takes the same pair under another relation for a different link.
C16_LinkUnique ==
    /\ [](\A l \in DOMAIN db.links : \A k \in DOMAIN db.links :
             db.links[l] = db.links[k] => l = k)
    /\ [][call'.op = "link" =>
            LET s == call'.source_id
                tg == call'.target_id
                rel == call'.relation
            IN  IF LinksOfTriple(db, s, tg, rel) # {}
                THEN ret'.val = None /\ db'.links = db.links
                ELSE (s \in DOMAIN db.rows /\ tg \in DOMAIN db.rows) =>
                        /\ ret'.val \notin DOMAIN db.links
                        /\ DOMAIN db'.links = DOMAIN db.links \cup {ret'.val}
                        /\ db'.links[ret'.val] =
                              [source_id |-> s, target_id |-> tg,
                               relation |-> rel]
                        /\ \A l \in DOMAIN db.links :
                              db'.links[l] = db.links[l]]_vars

\* the second link from 1 to 2, of another relation, has just been created
C16_Witness ==
    /\ call.op = "link"
    /\ ret.val # None
    /\ call.relation = "causes"
    /\ LinksOfTriple(db, call.source_id, call.target_id, "causes")
          = {ret.val}
    /\ LinksOfTriple(db, call.source_id, call.target_id, "related") # {}

\* C18: link(source, target, relation) reports not-found when source or
\* target does not exist and reports duplicate (None) only when the link
\* (source, target, relation) exists already, so that the caller can tell
\* the two apart; in both cases no link is created.
C18_LinkOutcomes ==
    [][(call'.op = "link" /\ ret'.val = None) =>
          /\ LinksOfTriple(db, call'.source_id, call'.target_id,
                           call'.relation) # {}
          /\ db'.links = db.links]_vars

\* ------------------------------------------------------------------------
\* client.py: Memory.prune, over rows that carry accessed_at
\* ------------------------------------------------------------------------
PruneMaxAccess == 3     \* "AND access_count < 3"

\* MemoryEntry(...) as Memory.store builds it, accessed_at included: the
\* default datetime.now(timezone.utc), written by store() as isoformat()
TimedEntry(content, importance, ns, ttl, t) ==
    NewEntry(content, importance, ns, ttl, t) @@ [accessed_at |-> Iso(t)]

\* "accessed_at = CURRENT_TIMESTAMP" of the two UPDATEs that raise
\* access_count (the duplicate of store, the touch of get): d1 is the
\* database after such a call on d0
Stamped(d0, d1, t) ==
    [d1 EXCEPT !.rows = [i \in DOMAIN d1.rows |->
        IF i \in DOMAIN d0.rows
           /\ d1.rows[i].access_count # d0.rows[i].access_count
        THEN [d1.rows[i] EXCEPT !.accessed_at = Sql(t)]
        ELSE d1.rows[i]]]

\* DELETE FROM memories WHERE accessed_at < ? AND importance < ?
\*   AND access_count < 3 AND namespace = ?, with ? = cutoff.isoformat()
PruneRows(d, days, min_importance, ns, t) ==
    {i \in DOMAIN d.rows :
        /\ TextLess(d.rows[i].accessed_at, Iso(PlusDays(t, 0 - days)))
        /\ d.rows[i].importance < min_importance
        /\ d.rows[i].access_count < PruneMaxAccess
        /\ d.rows[i].namespace = ns}

\* Memory.prune(days=days, min_importance=min_importance, namespace=ns)
prune(d, days, min_importance, ns, t) ==
    [db |-> DeleteRows(d, PruneRows(d, days, min_importance, ns, t)),
     ret |-> [op |-> "prune",
              val |-> Cardinality(PruneRows(d, days, min_importance, ns, t)),
              shown |-> {}, raised |-> FALSE]]

\* ------------------------------------------------------------------------
\* SpecPrune: memories, links between them, and the three calls that remove
\* memories: delete, cleanup_expired and prune.  The memories and the links
\* are those of SpecGraph.
\* ------------------------------------------------------------------------
PruneDays == {0, 1}

PruneImportances == {3, 5}

timed_store_call ==
    \E k \in DOMAIN GraphContents :
      \E ttl \in GraphTtlDays[k] :
        /\ k = db.seq + 1
        /\ db.seq < MaxGraphSeq
        /\ LET r == store(db, TimedEntry(GraphContents[k], 3, "default",
                                         ttl, now), now)
           IN  db' = Stamped(db, r.db, now) /\ ret' = r.ret
        /\ call' = [op |-> "store"]
        /\ UNCHANGED now
        /\ StoreFrame

prune_call ==
    \E days \in PruneDays, min_importance \in PruneImportances :
        /\ LET r == prune(db, days, min_importance, "default", now)
           IN  db' = r.db /\ ret' = r.ret
        /\ call' = [op |-> "prune", links |-> DOMAIN db.links]
        /\ UNCHANGED now
        /\ StoreFrame

NextPrune ==
    \/ timed_store_call
    \/ graph_link_call
    \/ graph_unlink_call
    \/ graph_delete_call
    \/ graph_cleanup_expired_call
    \/ prune_call
    \/ graph_advance

SpecPrune == StoreInit /\ [][NextPrune]_vars

\* the links of d that have a memory of the set gone as source or target
Incident(d, gone) ==
    {l \in DOMAIN d.links :
        d.links[l].source_id \in gone \/ d.links[l].target_id \in gone}

\* C17: in every reachable state both endpoints of every stored link are
\* existing memories: removing a memory - by delete, cleanup_expired or
\* prune - removes, in the same commit, every link that has it as source or
\* target, and leaves all other links unchanged.
C17_LinksCascade ==
    /\ [](\A l \in DOMAIN db.links :
             /\ db.links[l].source_id \in DOMAIN db.rows
             /\ db.links[l].target_id \in DOMAIN db.rows)
    /\ [][call'.op \in {"delete", "cleanup_expired", "prune"} =>
            db'.links =
                Restrict(db.links,
                         DOMAIN db.links
                            \ Incident(db, DOMAIN db.rows \ DOMAIN db'.rows))]_vars

\* prune has just removed memory 1 and with it the links 1 -> 2 and 3 -> 1,
\* and has left the link 2 -> 3
C17_Witness ==
    /\ call.op = "prune"
    /\ ret.val = 1
    /\ DOMAIN db.rows = {2, 3}
    /\ call.links = {1, 2, 3}
    /\ DOMAIN db.links = {2}
    /\ db.links[2] = GraphLinkRequests[2]

\* ------------------------------------------------------------------------
\* storage/sqlite_backend.py: the queries that select, order and cut.  The
\* rows here carry accessed_at and embedding next to the fields of NewEntry.
\* ------------------------------------------------------------------------
FtsMaxWords == 10       \* sanitize_fts_query(raw, max_words=10)

NoEmbedding == "-"      \* embedding = None

\* the lists a "SELECT ... ORDER BY ... LIMIT k" over the rows S may
\* return: the first k rows of an arrangement of S in which no row stands
\* behind a row it ranks before (before holds the pairs <<i, j>> with i
\* ranked before j); rows that the ORDER BY leaves tied come in any order
Ordered(S, before, k) ==
    {SubSeq(p, 1, Min2(k, Len(p))) :
        p \in {q \in [1..Cardinality(S) -> S] :
                 \A i, j \in 1..Cardinality(S) :
                    i < j => q[i] # q[j] /\ <<q[j], q[i]>> \notin before}}

\* the ids of a list
Range(s) == {s[i] : i \in DOMAIN s}

\* core/search.py: sanitize_fts_query on the words of raw (raw.split() of
\* the text with every other character blanked): the first max_words words,
\* each quoted, joined by OR; None (the empty list here) without words
sanitize_fts_query(words) == SubSeq(words, 1, Min2(FtsMaxWords, Len(words)))

\* memories_fts MATCH '"w1" OR "w2" ...': a word of the expression is a
\* token of one of the indexed columns content, tags, namespace (contents
\* and namespaces are single words, tags are empty)
Match(row, fts_expr) ==
    \E i \in DOMAIN fts_expr :
        fts_expr[i] = row.content \/ fts_expr[i] = row.namespace

\* the list of ids as the result of a query
Found(d, op, ids) ==
    [op |-> op, val |-> None, shown |-> {Shown(d, i) : i \in Range(ids)},
     raised |-> FALSE, ids |-> ids]

\* WHERE memories_fts MATCH ? AND _NOT_EXPIRED AND m.namespace = ?
SearchTextRows(d, fts_expr, ns, t) ==
    {i \in DOMAIN d.rows :
        /\ Match(d.rows[i], fts_expr)
        /\ NotExpired(d.rows[i], t)
        /\ d.rows[i].namespace = ns}

\* ORDER BY rank, m.importance DESC: rank is the bm25 score of FTS5, which
\* the model does not compute, so any order may come out
ByRank == {}

\* SQLiteBackend.search_text(query, namespace=ns, limit=limit): the set of
\* the lists it may return
search_text(d, words, ns, limit, t) ==
    IF sanitize_fts_query(words) = <<>>
    THEN {<<>>}
    ELSE Ordered(SearchTextRows(d, sanitize_fts_query(words), ns, t),
                 ByRank, limit)

\* SELECT * FROM memories WHERE _NOT_EXPIRED AND namespace = ?, then the
\* rows whose embedding is None are skipped
SearchVectorRows(d, ns, t) ==
    {i \in DOMAIN d.rows :
        /\ NotExpired(d.rows[i], t)
        /\ d.rows[i].namespace = ns
        /\ d.rows[i].embedding # NoEmbedding}

\* SQLiteBackend.search_vector(embedding, namespace=ns, limit=limit):
\* results.sort by the cosine similarity (not computed here), then [:limit]
search_vector(d, ns, limit, t) ==
    Ordered(SearchVectorRows(d, ns, t), ByRank, limit)

\* ORDER BY importance DESC, access_count DESC, accessed_at DESC (the
\* column accessed_at holds text)
PriorityBefore(d, i, j) ==
    \/ d.rows[i].importance > d.rows[j].importance
    \/ /\ d.rows[i].importance = d.rows[j].importance
       /\ d.rows[i].access_count > d.rows[j].access_count
    \/ /\ d.rows[i].importance = d.rows[j].importance
       /\ d.rows[i].access_count = d.rows[j].access_count
       /\ TextLess(d.rows[j].accessed_at, d.rows[i].accessed_at)

\* WHERE _NOT_EXPIRED AND importance >= ?
\*   AND (namespace = ? OR namespace = 'default')
PriorityRows(d, ns, min_importance, t) ==
    {i \in DOMAIN d.rows :
        /\ NotExpired(d.rows[i], t)
        /\ d.rows[i].importance >= min_importance
        /\ (d.rows[i].namespace = ns \/ d.rows[i].namespace = "default")}

\* SQLiteBackend.get_priority_memories(namespace=ns, limit=limit,
\* min_importance=min_importance): the set of the lists it may return
get_priority_memories(d, ns, limit, min_importance, t) ==
    LET S == PriorityRows(d, ns, min_importance, t)
    IN  Ordered(S, {p \in S \X S : PriorityBefore(d, p[1], p[2])}, limit)

\* ------------------------------------------------------------------------
\* SpecPrio: a Memory client stores contents into the namespaces, reads
\* them back by id, and queries them: list, search (text and semantic) and
\* recall.  A store or a get that would raise an access_count beyond
\* MaxPrioAccess is not followed.
\* ------------------------------------------------------------------------
MaxPrioSeq == 2         \* memories stored
MaxPrioAccess == 1      \* access_count of a memory explored

PrioContents == Contents

\* the contents stored while the client has an embedder
PrioEmbedded == {"a"}

\* the words of the queries searched for
PrioQueries == {<<>>, <<"a">>, <<"n1">>}

PrioLimits == {1, 20}

\* the ttl_days a content may be stored with
PrioTtlDays == [a |-> {0}, b |-> TtlDays]

\* the MemoryEntry of Memory.store with entry.embedding
PrioEntry(content, importance, ns, ttl, t) ==
    TimedEntry(content, importance, ns, ttl, t)
        @@ [embedding |-> IF content \in PrioEmbedded THEN content
                          ELSE NoEmbedding]

prio_store_call ==
    \E content \in PrioContents, importance \in Importances,
       ns \in Namespaces :
      \E ttl \in PrioTtlDays[content] :
        /\ \A i \in HashOwners(db, content_hash(content)) :
              db.rows[i].access_count < MaxPrioAccess
        /\ HashOwners(db, content_hash(content)) = {} => db.seq < MaxPrioSeq
        /\ LET r == store(db, PrioEntry(content, importance, ns, ttl, now),
                          now)
           IN  db' = Stamped(db, r.db, now) /\ ret' = r.ret
        /\ call' = [op |-> "store", namespace |-> ns]
        /\ UNCHANGED now
        /\ StoreFrame

prio_get_call ==
    \E id \in 1..MaxPrioSeq :
        /\ id \in DOMAIN db.rows => db.rows[id].access_count < MaxPrioAccess
        /\ LET r == get(db, id, now)
           IN  db' = Stamped(db, r.db, now) /\ ret' = r.ret
        /\ call' = [op |-> "get", namespace |-> NoNamespace]
        /\ UNCHANGED now
        /\ StoreFrame

prio_list_call ==
    \E ns \in Namespaces :
        /\ ret' = list_memories(db, ns, now).ret
        /\ call' = [op |-> "list", namespace |-> ns]
        /\ UNCHANGED <<db, now>>
        /\ StoreFrame

search_text_call ==
    \E words \in PrioQueries, ns \in Namespaces, limit \in PrioLimits :
      \E ids \in search_text(db, words, ns, limit, now) :
        /\ ret' = Found(db, "search_text", ids)
        /\ call' = [op |-> "search_text", namespace |-> ns,
                    limit |-> limit]
        /\ UNCHANGED <<db, now>>
        /\ StoreFrame

search_vector_call ==
    \E ns \in Namespaces, limit \in PrioLimits :
      \E ids \in search_vector(db, ns, limit, now) :
        /\ ret' = Found(db, "search_vector", ids)
        /\ call' = [op |-> "search_vector", namespace |-> ns,
                    limit |-> limit]
        /\ UNCHANGED <<db, now>>
        /\ StoreFrame

get_priority_call ==
    \E ns \in Namespaces, limit \in PrioLimits,
       min_importance \in Importances :
      \E ids \in get_priority_memories(db, ns, limit, min_importance, now) :
        /\ ret' = Found(db, "get_priority", ids)
        /\ call' = [op |-> "get_priority", namespace |-> ns,
                    limit |-> limit, min_importance |-> min_importance]
        /\ UNCHANGED <<db, now>>
        /\ StoreFrame

NextPrio ==
    \/ prio_store_call
    \/ prio_get_call
    \/ prio_list_call
    \/ search_text_call
    \/ search_vector_call
    \/ get_priority_call
    \/ Advance

SpecPrio == StoreInit /\ [][NextPrio]_vars

\* the memories of namespace ns that have not expired at the instant t
LiveIn(d, ns, t) ==
    {i \in DOMAIN d.rows :
        d.rows[i].namespace = ns /\ ~ExpiredAt(d.rows[i], t)}

\* C19: list, text search and vector search called with namespace n return
\* only memories whose namespace is n, and list(namespace=n) returns
\* exactly the memories stored into n that have not expired (expires_at
\* unset or later than now).
C19_NamespaceIsolation ==
    /\ call.op \in {"list", "search_text", "search_vector"} =>
          \A m \in ret.shown : db.rows[m.id].namespace = call.namespace
    /\ call.op = "list" =>
          {m.id : m \in ret.shown} = LiveIn(db, call.namespace, now)

\* the instant a is later than the instant b
Later(a, b) == a.day > b.day \/ (a.day = b.day /\ a.tod > b.tod)

\* memory i comes before memory j in the order importance descending, then
\* access_count descending, then accessed_at descending
RanksBefore(d, i, j) ==
    \/ d.rows[i].importance > d.rows[j].importance
    \/ /\ d.rows[i].importance = d.rows[j].importance
       /\ d.rows[i].access_count > d.rows[j].access_count
    \/ /\ d.rows[i].importance = d.rows[j].importance
       /\ d.rows[i].access_count = d.rows[j].access_count
       /\ Later(d.rows[i].accessed_at, d.rows[j].accessed_at)

\* the memories that get_priority(namespace=ns, min_importance=i) at the
\* instant t has to choose from
Qualifying(d, ns, min_importance, t) ==
    {i \in DOMAIN d.rows :
        /\ ~ExpiredAt(d.rows[i], t)
        /\ d.rows[i].importance >= min_importance
        /\ d.rows[i].namespace \in {ns, "default"}}

\* C20: get_priority(namespace=n, limit=k, min_importance=i) returns at
\* most k memories, each not expired, of importance >= i and of namespace
\* n or 'default', in the order importance descending, access_count
\* descending, accessed_at descending, and no qualifying memory that is
\* left out ranks before one that is returned.
C20_PriorityOrder ==
    call.op = "get_priority" =>
        /\ Len(ret.ids) <= call.limit
        /\ Range(ret.ids) \subseteq
              Qualifying(db, call.namespace, call.min_importance, now)
        /\ \A k, l \in DOMAIN ret.ids :
              k < l => ~RanksBefore(db, ret.ids[l], ret.ids[k])
        /\ \A i \in Qualifying(db, call.namespace, call.min_importance, now)
                       \ Range(ret.ids) :
              \A k \in DOMAIN ret.ids : ~RanksBefore(db, i, ret.ids[k])

\* ------------------------------------------------------------------------
\* core/types.py: the validation of MemoryEntry, and the calls of a Memory
\* client as they meet it
\* ------------------------------------------------------------------------
MinImportance == 1      \* Field(default=5, ge=1, ...)
MaxImportance == 10     \* Field(default=5, ..., le=10)

\* importance: int = Field(default=5, ge=1, le=10)
Validates(importance) ==
    MinImportance <= importance /\ importance <= MaxImportance

Raised(op) == [op |-> op, val |-> None, shown |-> {}, raised |-> TRUE]

\* Memory.store(content, importance=importance): MemoryEntry(...) raises
\* the ValidationError before the backend is called
Memory_store_validated(d, content, importance, ns, ttl, t) ==
    IF Validates(importance)
    THEN Memory_store(d, content, importance, ns, ttl, t)
    ELSE [db |-> d, ret |-> Raised("store")]

\* SQLiteBackend.get(memory_id) with _row_to_entry: the UPDATE of the touch
\* is committed before MemoryEntry(...) is built from the row
get_validated(d, id, t) ==
    LET r == get(d, id, t)
    IN  IF r.ret.val # None /\ ~Validates(d.rows[id].importance)
        THEN [db |-> r.db, ret |-> Raised("get")]
        ELSE r

\* Memory.update(memory_id, **fields): self.get, the UPDATE with the values
\* as passed, self.get
Memory_update(d, id, patch, t) ==
    LET first == get_validated(d, id, t)
    IN  IF first.ret.raised
        THEN [db |-> first.db, ret |-> Raised("update")]
        ELSE IF first.ret.val = None
                \/ (patch.content = NoContent
                    /\ patch.importance = NoImportance)
                \/ PatchCollides(first.db, id, patch)
        THEN update(d, id, patch, t)
        ELSE LET second == get_validated(ApplyPatch(first.db, id, patch),
                                         id, t)
             IN  [db |-> second.db,
                  ret |-> [second.ret EXCEPT !.op = "update"]]

\* Memory.import_memories(data): MemoryEntry(**item) and store, item by
\* item; the ValidationError of an item ends the call after the items
\* before it have been stored
RECURSIVE Memory_import_memories(_, _, _)
Memory_import_memories(d, items, t) ==
    IF items = <<>>
    THEN [db |-> d,
          ret |-> [op |-> "import", val |-> 0, shown |-> {},
                   raised |-> FALSE]]
    ELSE IF ~Validates(Head(items).importance)
    THEN [db |-> d, ret |-> Raised("import")]
    ELSE LET r == store(d, Head(items), t)
             rest == Memory_import_memories(r.db, Tail(items), t)
         IN  [db |-> rest.db,
              ret |-> IF rest.ret.raised THEN rest.ret
                      ELSE [rest.ret EXCEPT !.val =
                              @ + (IF r.ret.val # None THEN 1 ELSE 0)]]

\* ------------------------------------------------------------------------
\* SpecRange: a Memory client whose callers pass importances inside and
\* outside 1..10 to store, update and import_memories
\* ------------------------------------------------------------------------
MaxRangeAccess == 4     \* access_count of a memory explored

RangeImportances == {0, 1, 10, 11}

\* the lists of items imported
RangeImportData ==
    {<<NewEntry("a", 10, "default", 0, Instants[1])>>,
     <<NewEntry("a", 1, "default", 0, Instants[1]),
       NewEntry("b", 11, "default", 0, Instants[1])>>,
     <<NewEntry("b", 0, "default", 0, Instants[1])>>}

\* no access_count of the database e is beyond the explored values
RangeExplored(e) ==
    \A i \in DOMAIN e.rows : e.rows[i].access_count <= MaxRangeAccess

range_store_call ==
    \E content \in Contents, importance \in RangeImportances :
        /\ LET r == Memory_store_validated(db, content, importance,
                                           "default", 0, now)
           IN  /\ RangeExplored(r.db)
               /\ r.db.seq <= MaxSeq
               /\ db' = r.db
               /\ ret' = r.ret
        /\ call' = [op |-> "store", importance |-> importance]
        /\ UNCHANGED now
        /\ StoreFrame

range_update_call ==
    \E id \in Ids, content \in Contents \cup {NoContent},
       importance \in RangeImportances \cup {NoImportance} :
        /\ LET r == Memory_update(db, id, [content |-> content,
                                           importance |-> importance], now)
           IN  /\ RangeExplored(r.db)
               /\ db' = r.db
               /\ ret' = r.ret
        /\ call' = [op |-> "update", importance |-> importance]
        /\ UNCHANGED now
        /\ StoreFrame

range_import_call ==
    \E items \in RangeImportData :
        /\ LET r == Memory_import_memories(db, items, now)
           IN  /\ RangeExplored(r.db)
               /\ r.db.seq <= MaxSeq
               /\ db' = r.db
               /\ ret' = r.ret
        /\ call' = [op |-> "import", importance |-> NoImportance]
        /\ UNCHANGED now
        /\ StoreFrame

NextRange ==
    \/ range_store_call
    \/ range_update_call
    \/ range_import_call

SpecRange == StoreInit /\ [][NextRange]_vars

\* C21: in every reachable state of a store every memory has
\* 1 <= importance <= 10, whatever importances the callers of store, update
\* and import pass.
C21_ImportanceRange ==
    \A i \in DOMAIN db.rows :
        1 <= db.rows[i].importance /\ db.rows[i].importance <= 10

\* ------------------------------------------------------------------------
\* client.py: export_memories and import_memories.  The rows here carry
\* memory_type, tags and metadata next to the fields of TimedEntry.
\* ------------------------------------------------------------------------
ExportLimit == 10000    \* self.list(namespace=namespace, limit=10000)

NoTime == [day |-> -1, tod |-> 0]   \* a datetime that is None

\* _parse_dt: the datetime a stored text stands for, whichever separator
\* it was written with
_parse_dt(text) ==
    IF IsNull(text) THEN NoTime ELSE [day |-> text.day, tod |-> text.tod]

\* datetime.isoformat() as store() writes it, NULL for None
isoformat(dt) == IF dt.day = -1 THEN NullTime ELSE Iso(dt)

\* _row_to_entry(row) and model_dump(mode="json", exclude={"embedding"}):
\* the JSON object of the memory i
DumpOf(d, i) ==
    [id |-> i,
     content |-> d.rows[i].content,
     memory_type |-> d.rows[i].memory_type,
     importance |-> d.rows[i].importance,
     namespace |-> d.rows[i].namespace,
     tags |-> d.rows[i].tags,
     metadata |-> d.rows[i].metadata,
     content_hash |-> d.rows[i].content_hash,
     access_count |-> d.rows[i].access_count,
     accessed_at |-> _parse_dt(d.rows[i].accessed_at),
     expires_at |-> _parse_dt(d.rows[i].expires_at)]

\* ORDER BY importance DESC, accessed_at DESC of list_memories
ListBefore(d, i, j) ==
    \/ d.rows[i].importance > d.rows[j].importance
    \/ /\ d.rows[i].importance = d.rows[j].importance
       /\ TextLess(d.rows[j].accessed_at, d.rows[i].accessed_at)

\* Memory.export_memories(namespace=ns): the JSON documents it may return,
\* each a list of objects
export_memories(d, ns, t) ==
    LET S == {i \in DOMAIN d.rows :
                NotExpired(d.rows[i], t) /\ d.rows[i].namespace = ns}
    IN  {[k \in DOMAIN ids |-> DumpOf(d, ids[k])] :
            ids \in Ordered(S, {p \in S \X S : ListBefore(d, p[1], p[2])},
                            ExportLimit)}

\* EntryOfItem with the namespace of the importing client in place of the
\* namespace of the item
EntryOfItem_own_namespace(item) ==
    [content |-> item.content,
     memory_type |-> item.memory_type,
     importance |-> item.importance,
     namespace |-> "default",
     tags |-> item.tags,
     metadata |-> item.metadata,
     content_hash |-> item.content_hash,
     access_count |-> item.access_count,
     accessed_at |-> isoformat(item.accessed_at),
     expires_at |-> isoformat(item.expires_at)]

\* MemoryEntry(**item) as store() writes it: the id is not written, the
\* datetimes are written as isoformat()
EntryOfItem(item) ==
    [content |-> item.content,
     memory_type |-> item.memory_type,
     importance |-> item.importance,
     namespace |-> item.namespace,
     tags |-> item.tags,
     metadata |-> item.metadata,
     content_hash |-> item.content_hash,
     access_count |-> item.access_count,
     accessed_at |-> isoformat(item.accessed_at),
     expires_at |-> isoformat(item.expires_at)]

\* Memory.import_memories(data) for the document data
import_document(d, data, t) ==
    LET r == Memory_import_memories(
                 d, [k \in DOMAIN data |-> EntryOfItem(data[k])], t)
    IN  [db |-> Stamped(d, r.db, t), ret |-> r.ret]

\* ------------------------------------------------------------------------
\* SpecPort: one store is filled and read, its export is taken, and the
\* export is imported, up to MaxImports times, into a second store that was
\* empty when the export was taken; the calls on the first store are
\* followed until an export has been taken.  track holds the document, the second
\* store, the number of imports made and the exported memories.
\* ------------------------------------------------------------------------
MaxImports == 2         \* imports of one export
MaxPortAccess == 1      \* access_count explored in the exporting store

PortTypes == {"fact", "decision"}

PortTags == [a |-> <<>>, b |-> <<"t">>]

PortMetadata == [a |-> {}, b |-> {<<"k", "v">>}]

\* the fields the round trip is to preserve
Preserved(row) ==
    [content |-> row.content, memory_type |-> row.memory_type,
     importance |-> row.importance, tags |-> row.tags,
     metadata |-> row.metadata, namespace |-> row.namespace]

PortEntry(content, memory_type, importance, ns, ttl, t) ==
    TimedEntry(content, importance, ns, ttl, t)
        @@ [memory_type |-> memory_type, tags |-> PortTags[content],
            metadata |-> PortMetadata[content]]

PortInit ==
    /\ db = EmptyDb
    /\ now = Instants[1]
    /\ call = NoCall
    /\ ret = NoRet
    /\ ApiIdle
    /\ saver = <<>>
    /\ mono = 0
    /\ track = [taken |-> FALSE, data |-> <<>>, target |-> EmptyDb,
                imports |-> 0, exported |-> {}]
    /\ threads = <<>>

PortFrame == UNCHANGED <<apiVars, saver, mono, threads>>

port_store_call ==
    \E content \in Contents, memory_type \in PortTypes,
       importance \in Importances, ns \in Namespaces :
      \E ttl \in PrioTtlDays[content] :
        /\ ~track.taken
        /\ \A i \in HashOwners(db, content_hash(content)) :
              db.rows[i].access_count < MaxPortAccess
        /\ LET r == store(db, PortEntry(content, memory_type, importance,
                                        ns, ttl, now), now)
           IN  db' = Stamped(db, r.db, now) /\ ret' = r.ret
        /\ call' = [op |-> "store"]
        /\ UNCHANGED <<now, track>>
        /\ PortFrame

port_get_call ==
    \E id \in Ids :
        /\ ~track.taken
        /\ id \in DOMAIN db.rows => db.rows[id].access_count < MaxPortAccess
        /\ LET r == get(db, id, now)
           IN  db' = Stamped(db, r.db, now) /\ ret' = r.ret
        /\ call' = [op |-> "get"]
        /\ UNCHANGED <<now, track>>
        /\ PortFrame

export_memories_call ==
    \E ns \in Namespaces :
      \E data \in export_memories(db, ns, now) :
        /\ track' = [taken |-> TRUE, data |-> data, target |-> EmptyDb,
                     imports |-> 0,
                     exported |-> {Preserved(db.rows[data[k].id]) :
                                     k \in DOMAIN data}]
        /\ call' = [op |-> "export"]
        /\ ret' = [op |-> "export", val |-> Len(data), shown |-> {},
                   raised |-> FALSE]
        /\ UNCHANGED <<db, now>>
        /\ PortFrame

import_memories_call ==
    /\ track.taken
    /\ track.imports < MaxImports
    /\ LET r == import_document(track.target, track.data, now)
       IN  /\ track' = [track EXCEPT !.target = r.db, !.imports = @ + 1]
           /\ ret' = r.ret
    /\ call' = [op |-> "import"]
    /\ UNCHANGED <<db, now>>
    /\ PortFrame

port_advance ==
    \E k \in 1..(Len(Instants) - 1) :
        /\ now = Instants[k]
        /\ now' = Instants[k + 1]
        /\ call' = NoCall
        /\ ret' = NoRet
        /\ UNCHANGED <<db, track>>
        /\ PortFrame

NextPort ==
    \/ port_store_call
    \/ port_get_call
    \/ export_memories_call
    \/ import_memories_call
    \/ port_advance

SpecPort == PortInit /\ [][NextPort]_vars

\* C22: importing the JSON export of a store into an empty store creates
\* exactly one memory per exported memory, with equal content, type,
\* importance, tags, metadata and namespace, and returns their number;
\* importing the same export a second time returns 0 and adds no memory.
C22_ExportImport ==
    [][call'.op = "import" =>
         IF track.imports = 0
         THEN /\ ~ret'.raised
              /\ ret'.val = Cardinality(track.exported)
              /\ Cardinality(DOMAIN track'.target.rows) = ret'.val
              /\ {Preserved(track'.target.rows[i]) :
                    i \in DOMAIN track'.target.rows} = track.exported
         ELSE /\ ~ret'.raised
              /\ ret'.val = 0
              /\ DOMAIN track'.target.rows = DOMAIN track.target.rows]_vars

\* the export of two memories of namespace n1, one of them touched and
\* with an expiry date, has been imported twice
C22_Witness ==
    /\ call.op = "import"
    /\ track.imports = 2
    /\ ret.val = 0
    /\ Cardinality(track.exported) = 2
    /\ DOMAIN track.target.rows = {1, 2}
    /\ \A i \in {1, 2} : track.target.rows[i].namespace = "n1"
    /\ \E i \in {1, 2} : ~IsNull(track.target.rows[i].expires_at)
    /\ \E i \in DOMAIN db.rows : db.rows[i].accessed_at.sep = SepSpace

\* ------------------------------------------------------------------------
\* client.py: backfill_embeddings, over rows that carry embedding
\* ------------------------------------------------------------------------
\* the ids of the set S in ascending order
Ascending(S) ==
    CHOOSE s \in [1..Cardinality(S) -> S] :
        \A i, j \in 1..Cardinality(S) : i < j => s[i] < s[j]

\* SELECT * FROM memories WHERE _NOT_EXPIRED AND embedding IS NULL
\*   AND namespace = ? ORDER BY id LIMIT ? OFFSET ?
list_memories_without_embeddings(d, ns, limit, offset, t) ==
    LET all == Ascending({i \in DOMAIN d.rows :
                            /\ NotExpired(d.rows[i], t)
                            /\ d.rows[i].embedding = NoEmbedding
                            /\ d.rows[i].namespace = ns})
    IN  SubSeq(all, offset + 1, Min2(offset + limit, Len(all)))

\* self._embedder.embed(content): a vector that depends on the content
embed(content) == content

\* update_embedding(entry.id, embedding) for every entry of the batch
RECURSIVE UpdateEmbeddings(_, _)
UpdateEmbeddings(d, entries) ==
    IF entries = <<>> THEN d
    ELSE UpdateEmbeddings(
             [d EXCEPT !.rows[Head(entries)].embedding =
                           embed(d.rows[Head(entries)].content)],
             Tail(entries))

\* the while loop of backfill_embeddings from the given offset and count
RECURSIVE BackfillLoop(_, _, _, _, _, _, _)
BackfillLoop(d, ns, batch_size, offset, count, t, fuel) ==
    LET entries == list_memories_without_embeddings(d, ns, batch_size,
                                                    offset, t)
    IN  IF entries = <<>> \/ fuel = 0
        THEN [db |-> d, count |-> count]
        ELSE BackfillLoop(UpdateEmbeddings(d, entries), ns, batch_size,
                          offset + batch_size, count + Len(entries), t,
                          fuel - 1)

\* Memory.backfill_embeddings(namespace=ns, batch_size=batch_size) of a
\* client that has an embedder
backfill_embeddings(d, ns, batch_size, t) ==
    LET r == BackfillLoop(d, ns, batch_size, 0, 0, t,
                          Cardinality(DOMAIN d.rows) + 1)
    IN  [db |-> r.db,
         ret |-> [op |-> "backfill", val |-> r.count, shown |-> {},
                  raised |-> FALSE]]

\* ------------------------------------------------------------------------
\* SpecFill: memories are stored by clients with and without an embedder,
\* and a client with an embedder runs backfill_embeddings
\* ------------------------------------------------------------------------
MaxFillSeq == 3         \* memories stored

FillBatchSizes == {1, 2, 100}

FillEntry(content, ns, embedded, t) ==
    TimedEntry(content, DefaultImportance, ns, 0, t)
        @@ [embedding |-> IF embedded THEN embed(content) ELSE NoEmbedding]

fill_store_call ==
    \E k \in DOMAIN GraphContents, ns \in Namespaces, embedded \in BOOLEAN :
        /\ k = db.seq + 1
        /\ db.seq < MaxFillSeq
        /\ LET r == store(db, FillEntry(GraphContents[k], ns, embedded, now),
                          now)
           IN  db' = r.db /\ ret' = r.ret
        /\ call' = [op |-> "store", namespace |-> ns, batch_size |-> 0]
        /\ UNCHANGED now
        /\ StoreFrame

backfill_embeddings_call ==
    \E ns \in Namespaces, batch_size \in FillBatchSizes :
        /\ LET r == backfill_embeddings(db, ns, batch_size, now)
           IN  db' = r.db /\ ret' = r.ret
        /\ call' = [op |-> "backfill", namespace |-> ns,
                    batch_size |-> batch_size]
        /\ UNCHANGED now
        /\ StoreFrame

NextFill ==
    \/ fill_store_call
    \/ backfill_embeddings_call

SpecFill == StoreInit /\ [][NextFill]_vars

\* C23: a backfill_embeddings run made immediately after a run on the same
\* namespace returns 0, for every number of memories without an embedding
\* and every batch_size >= 1.
C23_BackfillIdempotent ==
    [][(/\ call.op = "backfill"
        /\ call'.op = "backfill"
        /\ call'.namespace = call.namespace
        /\ call'.batch_size = call.batch_size) => ret'.val = 0]_vars

\* ------------------------------------------------------------------------
\* context.py: the token budget of build_context.  A candidate is
\* represented by the length of its formatted line, "\n" included.
\* ------------------------------------------------------------------------
CharsPerToken == 4      \* max(1, len(text) // 4)
HeaderChars == 43       \* the characters of the header around its numbers

\* estimate_tokens(text) for a text of len characters
estimate_tokens(len) == Max2(1, len \div CharsPerToken)

\* len(str(n))
RECURSIVE Digits(_)
Digits(n) == IF n < 10 THEN 1 ELSE 1 + Digits(n \div 10)

\* estimate_tokens of
\* f"## Relevant Context ({count} memories, ~{total_tokens} tokens)\n\n"
HeaderTokens(count, total_tokens) ==
    estimate_tokens(HeaderChars + Digits(count) + Digits(total_tokens))

\* the for loop of build_context over ranked[k..], with the locals
\* header_tokens, selected (the number chosen) and total_tokens
RECURSIVE Accumulate(_, _, _, _, _, _)
Accumulate(ranked, k, max_tokens, header_tokens, selected, total_tokens) ==
    IF k > Len(ranked)
    THEN [selected |-> selected, total_tokens |-> total_tokens]
    ELSE LET entry_tokens == estimate_tokens(ranked[k])
             over == total_tokens + entry_tokens + header_tokens > max_tokens
                     /\ selected > 0
             header2 == IF over THEN HeaderTokens(selected, total_tokens)
                        ELSE header_tokens
         IN  IF over /\ total_tokens + entry_tokens + header2 > max_tokens
             THEN [selected |-> selected, total_tokens |-> total_tokens]
             ELSE Accumulate(ranked, k + 1, max_tokens, header2,
                             selected + 1, total_tokens + entry_tokens)

\* build_context(...) from the ranked candidates on: the ContextResult
build_context(ranked, max_tokens) ==
    LET a == Accumulate(ranked, 1, max_tokens, 0, 0, 0)
    IN  IF a.selected = 0
        THEN [op |-> "context", val |-> 0, shown |-> {}, raised |-> FALSE,
              memories_used |-> 0, truncated |-> FALSE]
        ELSE [op |-> "context",
              val |-> HeaderTokens(a.selected, a.total_tokens)
                         + a.total_tokens,
              shown |-> {}, raised |-> FALSE,
              memories_used |-> a.selected,
              truncated |-> a.selected < Len(ranked)]

\* ------------------------------------------------------------------------
\* SpecCtx: build_context is called once on a list of ranked candidates
\* ------------------------------------------------------------------------
MaxCandidates == 3      \* candidates ranked

\* the lengths of the formatted lines ("[fact|imp:5] " and "\n" are 14)
CtxLineChars == {14, 42, 80}

CtxMaxTokens == {5, 20, 24, 31, 50}

CtxInit ==
    /\ db = EmptyDb
    /\ now = Instants[1]
    /\ call \in {[op |-> "none", ranked |-> r, max_tokens |-> m] :
                    r \in UNION {[1..n -> CtxLineChars] :
                                    n \in 0..MaxCandidates},
                    m \in CtxMaxTokens}
    /\ ret = NoRet
    /\ ApiIdle
    /\ AutoIdle
    /\ threads = <<>>

build_context_call ==
    /\ call.op = "none"
    /\ call' = [call EXCEPT !.op = "context"]
    /\ ret' = build_context(call.ranked, call.max_tokens)
    /\ UNCHANGED <<db, now>>
    /\ StoreFrame

NextCtx == build_context_call

SpecCtx == CtxInit /\ [][NextCtx]_vars

\* C24: when a build_context result includes more than one memory, its
\* token_count (header tokens plus the token estimates of the included
\* entries) is <= max_tokens; one memory is included even when it alone
\* exceeds the budget; nothing is included only when there are no
\* candidates.
C24_TokenBudget ==
    call.op = "context" =>
        /\ ret.memories_used > 1 => ret.val <= call.max_tokens
        /\ ret.memories_used = 0 <=> call.ranked = <<>>

\* ------------------------------------------------------------------------
\* server/websocket.py: ConnectionManager.  _connections maps a namespace to
\* the list of its websockets; a websocket is the number of its connection.
\* ------------------------------------------------------------------------
\* disconnect that leaves the table as it is
disconnect_keep(conns, websocket, namespace) == conns

\* ConnectionManager.disconnect(websocket, namespace)
disconnect(conns, websocket, namespace) ==
    [conns EXCEPT ![namespace] = SelectSeq(@, LAMBDA w : w # websocket)]

\* ConnectionManager.connect(websocket, namespace), after the accept
connect(conns, websocket, namespace) ==
    [conns EXCEPT ![namespace] = Append(@, websocket)]

\* ------------------------------------------------------------------------
\* SpecHub: websockets connect to /v1/ws/{namespace}, their transports
\* drop, the endpoint notices the drop, and handlers broadcast events.  A
\* broadcast is a coroutine: it takes its copy of the list and then sends
\* to one websocket per step, other coroutines running in between.
\*   world    the ConnectionManager and the transports that are up
\*   threads  the broadcasts begun: namespace, the copy of the list, the
\*            part of it not yet sent to; the event is the position
\*   track    history: the namespace each websocket connected with, the
\*            websockets connected and not disconnected, those a send to
\*            which has failed, the events each has received, and for each
\*            broadcast the websockets subscribed when it began
\* ------------------------------------------------------------------------
MaxSockets == 3         \* websocket connections accepted
MaxEvents == 2          \* broadcasts begun

Sockets == 1..MaxSockets

HubInit ==
    /\ db = EmptyDb
    /\ now = Instants[1]
    /\ call = NoCall
    /\ ret = NoRet
    /\ CLOUD_MODE = TRUE
    /\ world = [connections |-> [ns \in Namespaces |-> <<>>],
                accepted |-> 0, open |-> {}]
    /\ alone = <<>>
    /\ saver = <<>>
    /\ mono = 0
    /\ track = [namespace |-> <<>>, live |-> {}, failed |-> {},
                received |-> [w \in Sockets |-> {}], audience |-> <<>>]
    /\ threads = <<>>

HubFrame == UNCHANGED <<db, now, ret, CLOUD_MODE, alone, saver, mono>>

\* ws_endpoint up to its first receive_text: manager.connect
ws_endpoint_connect ==
    \E namespace \in Namespaces :
        /\ world.accepted < MaxSockets
        /\ LET websocket == world.accepted + 1
           IN  /\ world' = [connections |-> connect(world.connections,
                                                     websocket, namespace),
                            accepted |-> websocket,
                            open |-> world.open \cup {websocket}]
               /\ track' = [track EXCEPT
                              !.namespace = Append(@, namespace),
                              !.live = @ \cup {websocket}]
        /\ call' = [op |-> "connect"]
        /\ UNCHANGED threads
        /\ HubFrame

\* the transport of a websocket goes down
transport_drop ==
    \E websocket \in world.open :
        /\ world' = [world EXCEPT !.open = @ \ {websocket}]
        /\ call' = [op |-> "drop"]
        /\ UNCHANGED <<track, threads>>
        /\ HubFrame

\* ws_endpoint: receive_text raises WebSocketDisconnect, manager.disconnect
ws_endpoint_disconnect ==
    \E websocket \in track.live \ world.open :
        /\ world' = [world EXCEPT !.connections =
                        disconnect(@, websocket, track.namespace[websocket])]
        /\ track' = [track EXCEPT !.live = @ \ {websocket}]
        /\ call' = [op |-> "disconnect"]
        /\ UNCHANGED threads
        /\ HubFrame

\* broadcast: list(self._connections.get(namespace, []))
broadcast_begin ==
    \E namespace \in Namespaces :
        /\ Len(threads) < MaxEvents
        /\ threads' = Append(threads,
                             [namespace |-> namespace,
                              pending |-> world.connections[namespace]])
        /\ track' = [track EXCEPT !.audience =
                        Append(@, {w \in track.live :
                                      track.namespace[w] = namespace})]
        /\ call' = [op |-> "broadcast"]
        /\ UNCHANGED world
        /\ HubFrame

\* broadcast: one turn of the for loop, ws.send_text and the except branch
broadcast_send ==
    \E event \in DOMAIN threads :
        /\ threads[event].pending # <<>>
        /\ LET ws == Head(threads[event].pending)
               namespace == threads[event].namespace
           IN  IF ws \in world.open
               THEN /\ track' = [track EXCEPT !.received[ws] = @ \cup {event}]
                    /\ UNCHANGED world
               ELSE /\ world' = [world EXCEPT !.connections =
                                    disconnect(@, ws, namespace)]
                    /\ track' = [track EXCEPT !.failed = @ \cup {ws},
                                              !.live = @ \ {ws}]
        /\ threads' = [threads EXCEPT ![event].pending = Tail(@)]
        /\ call' = [op |-> "send"]
        /\ HubFrame

NextHub ==
    \/ ws_endpoint_connect
    \/ transport_drop
    \/ ws_endpoint_disconnect
    \/ broadcast_begin
    \/ broadcast_send

SpecHub == HubInit /\ [][NextHub]_vars

\* the websockets in the subscriber table
InTable(w) == UNION {Range(w.connections[ns]) : ns \in Namespaces}

\* C25: an event broadcast to a namespace reaches only websockets that
\* connected with that namespace, and every websocket subscribed when the
\* broadcast began whose transport is still up once the loop has ended; a
\* websocket a send to which has failed is not in the subscriber table and
\* receives no event from then on; the failure is not raised.
C25_Broadcast ==
    /\ [](/\ \A event \in DOMAIN threads, w \in Sockets :
                event \in track.received[w] =>
                    /\ w \in DOMAIN track.namespace
                    /\ track.namespace[w] = threads[event].namespace
          /\ \A event \in DOMAIN threads :
                threads[event].pending = <<>> =>
                    \A w \in track.audience[event] \cap world.open :
                        event \in track.received[w]
          /\ track.failed \cap InTable(world) = {}
          /\ ~ret.raised)
    /\ [][\A w \in track.failed :
             track'.received[w] = track.received[w]]_vars

\* a broadcast to two websockets of one namespace has ended: the send to
\* the first failed, the second has received the event, and a websocket of
\* the other namespace has received nothing
C25_Witness ==
    /\ Len(threads) >= 1
    /\ threads[1].pending = <<>>
    /\ track.audience[1] = {1, 2}
    /\ track.failed = {1}
    /\ 1 \in track.received[2]
    /\ 3 \in world.open
    /\ track.namespace[3] # threads[1].namespace
    /\ track.received[3] = {}

\* ------------------------------------------------------------------------
\* server/auth/dependencies.py: require_auth on the headers of a request,
\* in cloud mode.  A credential is what the request carries: the header,
\* whether the token decodes (signature and expiry) or the key is on
\* record, the type claim of the token, and the user it names.
\* ------------------------------------------------------------------------
GhostUser == "u0"       \* the id of a user that has been deleted

Credentials ==
    {[header |-> "none", valid |-> FALSE, type |-> "-", user |-> "-"],
     [header |-> "Authorization", valid |-> TRUE, type |-> "access",
      user |-> "u1"],
     [header |-> "Authorization", valid |-> FALSE, type |-> "access",
      user |-> "u1"],
     [header |-> "Authorization", valid |-> TRUE, type |-> "refresh",
      user |-> "u1"],
     [header |-> "Authorization", valid |-> TRUE, type |-> "access",
      user |-> GhostUser],
     [header |-> "X-API-Key", valid |-> TRUE, type |-> "-", user |-> "u2"],
     [header |-> "X-API-Key", valid |-> FALSE, type |-> "-", user |-> "u2"]}

\* require_auth(request) in cloud mode: the AuthUser, or the 401
authenticate(cred) ==
    IF cred.header = "Authorization"
    THEN IF cred.valid /\ cred.type = "access" /\ cred.user \in UserIds
         THEN [status |-> 200, user |-> require_auth(cred.user)]
         ELSE [status |-> 401, user |-> <<>>]
    ELSE IF cred.header = "X-API-Key"
    THEN IF cred.valid /\ cred.user \in UserIds
         THEN [status |-> 200, user |-> require_auth(cred.user)]
         ELSE [status |-> 401, user |-> <<>>]
    ELSE [status |-> 401, user |-> <<>>]

\* ------------------------------------------------------------------------
\* SpecGate: requests with and without valid credentials on POST
\* /v1/memories, GET /v1/memories/{id} and the websocket /v1/ws/{namespace}
\* of a server in cloud mode.  world holds the database files and the
\* subscriber table; track holds, for each websocket, the credential it
\* came with and the events sent to it.
\* ------------------------------------------------------------------------
MaxGateSockets == 1     \* websocket connections made

GateContents == {"a"}

GateIds == {1}

GateInit ==
    /\ db = EmptyDb
    /\ now = Instants[1]
    /\ call = NoCall
    /\ ret = [status |-> 0]
    /\ CLOUD_MODE = TRUE
    /\ world = EmptyWorld @@ [connections |-> [ns \in Namespaces |-> <<>>]]
    /\ alone = <<>>
    /\ saver = <<>>
    /\ mono = 0
    /\ track = [cred |-> <<>>, received |-> <<>>]
    /\ threads = <<>>

GateFrame == UNCHANGED <<db, now, CLOUD_MODE, alone, saver, mono, threads>>

\* manager.broadcast(ns, "memory_stored", {"id": mid}) on the table conns
\* with every transport up: the events sent to each websocket afterwards
\* (an event is recorded with the tenant whose write it reports)
Broadcast(conns, received, ns, event) ==
    [w \in DOMAIN received |->
        IF w \in Range(conns[ns]) THEN received[w] \cup {event}
        ELSE received[w]]

gate_store_memory_request ==
    \E cred \in Credentials, ns \in ApiNamespaces, c \in GateContents :
        LET auth == authenticate(cred)
            body == [content |-> c, importance |-> DefaultImportance,
                     namespace |-> NoNamespace, ttl_days |-> 0]
            r == store_memory(world, auth.user, ns, body, now)
        IN  /\ call' = [op |-> "store_memory", cred |-> cred]
            /\ IF auth.status # 200
               THEN /\ ret' = [status |-> auth.status]
                    /\ UNCHANGED <<world, track>>
               ELSE /\ Explored(r.world)
                    /\ world' = r.world
                    /\ ret' = [status |-> r.resp.status]
                    /\ track' = IF r.resp.status = 200
                                THEN [track EXCEPT !.received =
                                        Broadcast(world.connections, @, ns,
                                                  [user |-> auth.user.id])]
                                ELSE track
            /\ GateFrame

gate_get_memory_request ==
    \E cred \in Credentials, ns \in ApiNamespaces, id \in GateIds :
        LET auth == authenticate(cred)
            r == get_memory(world, auth.user, ns, id, now)
        IN  /\ call' = [op |-> "get_memory", cred |-> cred]
            /\ IF auth.status # 200
               THEN /\ ret' = [status |-> auth.status]
                    /\ UNCHANGED world
               ELSE /\ Explored(r.world)
                    /\ world' = r.world
                    /\ ret' = [status |-> r.resp.status]
            /\ UNCHANGED track
            /\ GateFrame

\* ws_endpoint(websocket, namespace): manager.connect; the headers of the
\* handshake are not read
gate_ws_endpoint ==
    \E cred \in Credentials, namespace \in Namespaces :
        /\ Len(track.cred) < MaxGateSockets
        /\ world' = [world EXCEPT !.connections =
                        connect(@, Len(track.cred) + 1, namespace)]
        /\ track' = [cred |-> Append(track.cred, cred),
                     received |-> Append(track.received, {})]
        /\ call' = [op |-> "ws", cred |-> cred]
        /\ ret' = [status |-> 101]
        /\ GateFrame

NextGate ==
    \/ gate_store_memory_request
    \/ gate_get_memory_request
    \/ gate_ws_endpoint

SpecGate == GateInit /\ [][NextGate]_vars

\* the credential is a valid access token of an existing user or a valid
\* API key
Authentic(cred) ==
    /\ cred.valid
    /\ cred.user \in UserIds
    /\ cred.header = "Authorization" => cred.type = "access"

\* C26: in cloud mode a request without a valid access token of an existing
\* user and without a valid API key is rejected (401, or the websocket
\* refused) and reads, writes and subscribes to nothing.
C26_AuthRequired ==
    /\ [](\A w \in DOMAIN track.cred :
             ~Authentic(track.cred[w]) => track.received[w] = {})
    /\ [][~Authentic(call'.cred) =>
             /\ ret'.status = 401
             /\ world' = world]_vars

\* ------------------------------------------------------------------------
\* server/api.py, server/tiers.py: the namespace quota
\* ------------------------------------------------------------------------
MaxNamespacesFree == 1      \* stands for FREE.max_namespaces (2)
MaxNamespacesPro == 1       \* stands for PRO.max_namespaces (25)
UnlimitedNamespaces == 0    \* ENTERPRISE.max_namespaces

\* get_tier(tier).max_namespaces
max_namespaces(tier) ==
    IF tier = "enterprise" THEN UnlimitedNamespaces
    ELSE IF tier = "pro" THEN MaxNamespacesPro
    ELSE MaxNamespacesFree

\* SELECT COUNT(DISTINCT namespace) FROM memories
DistinctNamespaces(d) == {d.rows[i].namespace : i \in DOMAIN d.rows}

\* _check_namespace_limit(user, namespace, mem) raises 403; no handler of
\* server/api.py calls it
NamespaceLimitReached(w, user, namespace, mem) ==
    /\ max_namespaces(user.tier) > 0
    /\ Cardinality(DistinctNamespaces(w.files[mem.db_path]))
          >= max_namespaces(user.tier)
    /\ namespace \notin DistinctNamespaces(w.files[mem.db_path])

\* ------------------------------------------------------------------------
\* SpecQuota: the writes of the REST layer in cloud mode, into the
\* namespaces of the X-Namespace header, of the body and of imported items
\* ------------------------------------------------------------------------
QuotaImportData ==
    {<<NewEntry("a", DefaultImportance, "n1", 0, Instants[1])>>,
     <<NewEntry("b", DefaultImportance, "default", 0, Instants[1])>>}

QuotaInit ==
    /\ CLOUD_MODE = TRUE
    /\ world = EmptyWorld
    /\ alone = [u \in UserIds |-> EmptyWorld]
    /\ db = EmptyDb
    /\ now = Instants[1]
    /\ call = NoCall
    /\ ret = [status |-> 0]
    /\ AutoIdle
    /\ threads = <<>>

QuotaFrame == UNCHANGED <<db, now, CLOUD_MODE, alone, autoVars, threads>>

quota_store_request ==
    \E u \in UserIds, ns \in Namespaces,
       bns \in Namespaces \cup {NoNamespace}, c \in Contents :
        LET body == [content |-> c, importance |-> DefaultImportance,
                     namespace |-> bns, ttl_days |-> 0]
            r == store_memory(world, require_auth(u), ns, body, now)
        IN  /\ Explored(r.world)
            /\ world' = r.world
            /\ call' = [op |-> "store_memory", user |-> u,
                        namespace |-> IF bns # NoNamespace THEN bns ELSE ns]
            /\ ret' = [status |-> r.resp.status]
            /\ QuotaFrame

quota_import_request ==
    \E u \in UserIds, ns \in Namespaces, data \in QuotaImportData :
        LET r == import_memories(world, require_auth(u), ns, data, now)
        IN  /\ Explored(r.world)
            /\ world' = r.world
            /\ call' = [op |-> "import_memories", user |-> u,
                        namespace |-> data[1].namespace]
            /\ ret' = [status |-> r.resp.status]
            /\ QuotaFrame

NextQuota ==
    \/ quota_store_request
    \/ quota_import_request

SpecQuota == QuotaInit /\ [][NextQuota]_vars

\* the tenant store of user u
TenantStore(w, u) == w.files[<<"tenants", u, "memory.db">>]

\* C27: for a tenant whose tier has max_namespaces = N > 0 the tenant store
\* never holds memories in more than N distinct namespaces: a write into a
\* namespace that does not exist yet is answered 403 when N namespaces
\* exist, and a write into an existing namespace is not answered 403 for
\* this quota (with no memory quota reached, it is admitted).
C27_NamespaceQuota ==
    /\ [](\A u \in UserIds :
            max_namespaces(TierOf[u]) > 0
                => Cardinality(DistinctNamespaces(TenantStore(world, u)))
                      <= max_namespaces(TierOf[u]))
    /\ [][call'.op \in {"store_memory", "import_memories"}
            /\ max_namespaces(TierOf[call'.user]) > 0
            /\ call'.namespace
                  \notin DistinctNamespaces(TenantStore(world, call'.user))
            /\ Cardinality(DistinctNamespaces(TenantStore(world, call'.user)))
                  >= max_namespaces(TierOf[call'.user])
          => ret'.status = 403 /\ world' = world]_vars

\* ------------------------------------------------------------------------
\* autosave.py: AutoSave.restore(checkpoint_id)
\* ------------------------------------------------------------------------
\* _generate_session_id(): f"session_{ts}_{suffix}", the text that stands
\* in the session_id column of the session of row s
_generate_session_id(s) == <<"session_", s>>

\* str(checkpoint_id): the decimal digits of the id
str(n) == <<"", n>>

\* AutoSave.restore(checkpoint_id): load_checkpoint(session_id=
\* str(checkpoint_id)) when an id is given (WHERE c.session_id = ?), and
\* load_checkpoint(project=self._project) otherwise
restore_checkpoint_id(s, d, checkpoint_id) ==
    IF checkpoint_id # None
    THEN UNION {load_checkpoint(d, NoProject, sid) :
                   sid \in {k \in DOMAIN d.sessions :
                               _generate_session_id(k) = str(checkpoint_id)}}
    ELSE restore(s, d)

\* ------------------------------------------------------------------------
\* SpecRestore: checkpoints written through a SessionManager and read
\* back by AutoSave instances constructed over it
\* ------------------------------------------------------------------------
\* the checkpoint_id arguments: None, and the ids of the checkpoints
CheckpointIds == {None} \cup (1..MaxSessCheckpoints)

autosave_restore_call ==
    \E project \in SessProjects, checkpoint_id \in CheckpointIds :
        /\ call' = [op |-> "restore", project |-> project,
                    checkpoint_id |-> checkpoint_id]
        /\ ret' = [op |-> "restore",
                   ids |-> restore_checkpoint_id(NewAutoSave(project, 0),
                                                 db, checkpoint_id)]
        /\ UNCHANGED <<db, now>>
        /\ StoreFrame

NextRestore ==
    \/ save_checkpoint_call
    \/ autosave_restore_call
    \/ Advance

SpecRestore == StoreInit /\ [][NextRestore]_vars

\* C28: restore(checkpoint_id=c), for c the id of an existing checkpoint,
\* returns exactly that checkpoint; restore() without an id returns the
\* checkpoint written last for the instance's project, or nothing when the
\* project has none.
C28_Restore ==
    call.op = "restore" =>
        /\ call.checkpoint_id \in DOMAIN db.checkpoints
              => ret.ids = {call.checkpoint_id}
        /\ (call.checkpoint_id = None /\ call.project # NoProject)
              => ret.ids = WrittenLast(CheckpointsOfProject(call.project))

\* ------------------------------------------------------------------------
\* SpecUpd: Memory.store and SQLiteBackend.update on one store, the
\* memories in two namespaces, the arguments of update kept in `call`
\* ------------------------------------------------------------------------
MaxUpdAccess == 2       \* access_count explored by the updates

upd_store_call ==
    \E c \in Contents, imp \in Importances, ns \in Namespaces,
       ttl \in TtlDays :
        /\ HashOwners(db, content_hash(c)) = {}
        /\ db.seq < MaxSeq
        /\ LET r == Memory_store(db, c, imp, ns, ttl, now)
           IN  db' = r.db /\ ret' = r.ret
        /\ call' = [op |-> "store"]
        /\ UNCHANGED now
        /\ StoreFrame

upd_update_call ==
    \E id \in Ids, c \in Contents \cup {NoContent},
       imp \in Importances \cup {NoImportance} :
        LET r == update(db, id, [content |-> c, importance |-> imp], now)
        IN  /\ \A i \in DOMAIN r.db.rows :
                  r.db.rows[i].access_count <= MaxUpdAccess
            /\ db' = r.db
            /\ ret' = r.ret
            /\ call' = [op |-> "update", id |-> id, content |-> c,
                        importance |-> imp]
            /\ UNCHANGED now
            /\ StoreFrame

NextUpd ==
    \/ upd_store_call
    \/ upd_update_call
    \/ Advance

SpecUpd == StoreInit /\ [][NextUpd]_vars

\* the memories other than id that hold content c
OtherHolders(d, id, c) == {j \in DOMAIN d.rows \ {id} : d.rows[j].content = c}

\* the fields a patch may write are the same in d and e for every memory
PatchedFieldsKept(d, e) ==
    /\ DOMAIN e.rows = DOMAIN d.rows
    /\ \A i \in DOMAIN d.rows :
          /\ e.rows[i].content = d.rows[i].content
          /\ e.rows[i].content_hash = d.rows[i].content_hash
          /\ e.rows[i].importance = d.rows[i].importance
          /\ e.rows[i].namespace = d.rows[i].namespace

\* C29: update(id, content=c) of a memory that exists and has not expired,
\* when a different memory (of any namespace, expired or not) holds content
\* c, fails with the duplicate-key error and leaves content, content_hash,
\* importance and namespace of every memory as they were; when no other
\* memory holds c, the call does not fail and the memory's content and
\* content_hash become c and the hash of c.  Every row written by
\* Memory.store and update carries the hash of its content.
C29_UpdateCollision ==
    /\ [](\A i \in DOMAIN db.rows :
            db.rows[i].content_hash = content_hash(db.rows[i].content))
    /\ [][(/\ call'.op = "update"
           /\ call'.content # NoContent
           /\ call'.id \in DOMAIN db.rows
           /\ ~ExpiredAt(db.rows[call'.id], now))
          => IF OtherHolders(db, call'.id, call'.content) # {}
             THEN ret'.raised /\ PatchedFieldsKept(db, db')
             ELSE /\ ~ret'.raised
                  /\ db'.rows[call'.id].content = call'.content
                  /\ db'.rows[call'.id].content_hash
                        = content_hash(call'.content)]_vars

\* an update of content and importance has met the content of a memory of
\* another namespace and has failed
C29_Witness ==
    /\ call.op = "update"
    /\ ret.raised
    /\ call.importance # NoImportance
    /\ call.id \in DOMAIN db.rows
    /\ db.rows[call.id].importance # call.importance
    /\ \E j \in OtherHolders(db, call.id, call.content) :
          db.rows[j].namespace # db.rows[call.id].namespace

\* ------------------------------------------------------------------------
\* server/api.py: the caches _memories, _session_managers and _autosavers.
\* The handlers declared with `def` run in the worker threads of the
\* server, so their calls of _mem, _sess and _get_autosaver interleave.
\* An instance is named by the number of its construction for its key;
\* 0 stands for "no instance".  The keys differ in the user only.
\* ------------------------------------------------------------------------
Factories == {"_mem", "_sess", "_get_autosaver"}

\* caches without an entry, and no instance constructed
EmptyCaches ==
    [cache |-> [f \in Factories |-> [u \in UserIds |-> 0]],
     made |-> [f \in Factories |-> [u \in UserIds |-> 0]]]

\* ------------------------------------------------------------------------
\* SpecFlight: up to MaxRequests requests, each calling one of the three
\* functions for a user.  world holds the caches, threads the requests:
\* fn the function called, at the function executing (the _sess called for
\* the argument of AutoSave, or fn), pc its position, inst the instance it
\* constructed, used the instance the request got.
\* ------------------------------------------------------------------------
MaxRequests == 3

FlightInit ==
    /\ world = EmptyCaches
    /\ threads = <<>>
    /\ CLOUD_MODE = TRUE
    /\ alone = [u \in UserIds |-> EmptyWorld]
    /\ db = EmptyDb
    /\ now = Instants[1]
    /\ call = NoCall
    /\ ret = NoRet
    /\ AutoIdle

FlightFrame == UNCHANGED <<db, now, call, ret, CLOUD_MODE, alone, autoVars>>

\* a request enters the function
request_begin ==
    \E f \in Factories, u \in UserIds :
        /\ Len(threads) < MaxRequests
        /\ threads' = Append(threads,
                          [fn |-> f, user |-> u, at |-> f, pc |-> "check",
                           inst |-> 0, used |-> 0])
        /\ UNCHANGED world
        /\ FlightFrame

\* if key not in cache: a hit goes to the return statement; a miss goes to
\* the constructor call, whose argument _sess(user) _get_autosaver
\* evaluates first
cache_check ==
    \E i \in DOMAIN threads :
        LET th == threads[i]
        IN  /\ th.pc = "check"
            /\ threads' = [threads EXCEPT ![i] =
                   IF world.cache[th.at][th.user] # 0
                   THEN [th EXCEPT !.pc = "return"]
                   ELSE IF th.at = "_get_autosaver"
                   THEN [th EXCEPT !.at = "_sess"]
                   ELSE [th EXCEPT !.pc = "construct"]]
            /\ UNCHANGED world
            /\ FlightFrame

\* Memory(config, namespace), SessionManager(db_path), AutoSave(sess, project)
cache_construct ==
    \E i \in DOMAIN threads :
        LET th == threads[i]
            n == world.made[th.at][th.user] + 1
        IN  /\ th.pc = "construct"
            /\ world' = [world EXCEPT !.made[th.at][th.user] = n]
            /\ threads' = [threads EXCEPT ![i] =
                              [th EXCEPT !.inst = n, !.pc = "insert"]]
            /\ FlightFrame

\* cache[key] = the instance constructed
cache_insert ==
    \E i \in DOMAIN threads :
        LET th == threads[i]
        IN  /\ th.pc = "insert"
            /\ world' = [world EXCEPT !.cache[th.at][th.user] = th.inst]
            /\ threads' = [threads EXCEPT ![i] = [th EXCEPT !.pc = "return"]]
            /\ FlightFrame

\* return cache[key]: to the request, or to _get_autosaver, which goes on
\* to construct the AutoSave
cache_return ==
    \E i \in DOMAIN threads :
        LET th == threads[i]
        IN  /\ th.pc = "return"
            /\ threads' = [threads EXCEPT ![i] =
                   IF th.at # th.fn
                   THEN [th EXCEPT !.at = th.fn, !.pc = "construct"]
                   ELSE [th EXCEPT !.used = world.cache[th.at][th.user],
                                   !.pc = "done"]]
            /\ UNCHANGED world
            /\ FlightFrame

NextFlight ==
    \/ request_begin
    \/ cache_check
    \/ cache_construct
    \/ cache_insert
    \/ cache_return

SpecFlight == FlightInit /\ [][NextFlight]_vars

\* C30: for every key exactly one Memory, SessionManager or AutoSave is
\* ever constructed, however the first requests for the key interleave,
\* and every request that has returned got that one instance.
C30_SingleFlight ==
    /\ \A f \in Factories, u \in UserIds : world.made[f][u] <= 1
    /\ \A i, j \in DOMAIN threads :
          (/\ threads[i].pc = "done" /\ threads[j].pc = "done"
           /\ threads[i].fn = threads[j].fn
           /\ threads[i].user = threads[j].user)
              => threads[i].used = threads[j].used

\* ------------------------------------------------------------------------
\* SpecOrder: broadcasts as coroutines of one event loop.  A coroutine
\* runs without interruption until a send_text suspends it: the copy of
\* the list, the sends that raise at once (the transport is down) with
\* their except branch, and the hand-over of the message to the first
\* websocket whose transport is up are one step.  Coroutines suspended in
\* a send to the same websocket resume in the order in which they were
\* suspended.
\*   world    the ConnectionManager, the transports that are up, and for
\*            each websocket the broadcasts suspended in a send to it
\*   threads  the broadcasts in the order in which they were begun: the
\*            namespace, the part of the copy not yet sent to, and the
\*            websocket of the send they are suspended in (0: ended)
\*   track    history: the events handed to each websocket, in order
\* ------------------------------------------------------------------------
MaxOrderSockets == 2    \* websocket connections accepted
MaxOrderEvents == 2     \* broadcasts begun

OrderSockets == 1..MaxOrderSockets

OrderNamespaces == {"default"}

\* the loop of broadcast from the websockets `pending` on, up to the first
\* send_text that does not raise at once
RECURSIVE Sends(_, _, _, _)
Sends(conns, open, namespace, pending) ==
    IF pending = <<>> THEN [connections |-> conns, pending |-> <<>>, to |-> 0]
    ELSE IF Head(pending) \in open
    THEN [connections |-> conns, pending |-> Tail(pending),
          to |-> Head(pending)]
    ELSE Sends(disconnect(conns, Head(pending), namespace), open, namespace,
               Tail(pending))

\* the event is handed to websocket `to`, in which broadcast `event` waits
Handed(w, tr, event, r) ==
    [world |-> [w EXCEPT !.connections = r.connections,
                         !.waiters = IF r.to = 0 THEN @
                                     ELSE [@ EXCEPT ![r.to] = Append(@, event)]],
     track |-> IF r.to = 0 THEN tr
               ELSE [tr EXCEPT !.received[r.to] = Append(@, event)]]

OrderInit ==
    /\ db = EmptyDb
    /\ now = Instants[1]
    /\ call = NoCall
    /\ ret = NoRet
    /\ CLOUD_MODE = TRUE
    /\ world = [connections |-> [ns \in OrderNamespaces |-> <<>>],
                accepted |-> 0, open |-> {},
                waiters |-> [w \in OrderSockets |-> <<>>]]
    /\ alone = <<>>
    /\ saver = <<>>
    /\ mono = 0
    /\ track = [received |-> [w \in OrderSockets |-> <<>>]]
    /\ threads = <<>>

OrderFrame == UNCHANGED <<db, now, ret, CLOUD_MODE, alone, saver, mono>>

\* ws_endpoint up to its first receive_text: manager.connect
order_connect ==
    \E namespace \in OrderNamespaces :
        /\ world.accepted < MaxOrderSockets
        /\ world' = [world EXCEPT
                        !.connections = connect(@, world.accepted + 1,
                                                namespace),
                        !.accepted = @ + 1,
                        !.open = @ \cup {world.accepted + 1}]
        /\ call' = [op |-> "connect"]
        /\ UNCHANGED <<track, threads>>
        /\ OrderFrame

\* the transport of a websocket goes down
order_drop ==
    \E websocket \in world.open :
        /\ world' = [world EXCEPT !.open = @ \ {websocket}]
        /\ call' = [op |-> "drop"]
        /\ UNCHANGED <<track, threads>>
        /\ OrderFrame

\* await manager.broadcast(...) of a handler: up to the first suspension
order_broadcast ==
    \E namespace \in OrderNamespaces :
        LET event == Len(threads) + 1
            r == Sends(world.connections, world.open, namespace,
                       world.connections[namespace])
            h == Handed(world, track, event, r)
        IN  /\ Len(threads) < MaxOrderEvents
            /\ threads' = Append(threads, [namespace |-> namespace,
                                           pending |-> r.pending,
                                           at |-> r.to])
            /\ world' = h.world
            /\ track' = h.track
            /\ call' = [op |-> "broadcast"]
            /\ OrderFrame

\* the send_text a broadcast is suspended in returns, or raises because
\* the transport went down, and the loop goes on up to the next suspension
order_resume ==
    \E event \in DOMAIN threads :
        LET th == threads[event]
            ws == th.at
        IN  /\ ws # 0
            /\ Head(world.waiters[ws]) = event
            /\ LET conns == IF ws \in world.open THEN world.connections
                            ELSE disconnect(world.connections, ws,
                                            th.namespace)
                   r == Sends(conns, world.open, th.namespace, th.pending)
                   h == Handed([world EXCEPT !.waiters[ws] = Tail(@)],
                               track, event, r)
               IN  /\ threads' = [threads EXCEPT ![event].pending = r.pending,
                                                 ![event].at = r.to]
                   /\ world' = h.world
                   /\ track' = h.track
            /\ call' = [op |-> "resume"]
            /\ OrderFrame

NextOrder ==
    \/ order_connect
    \/ order_drop
    \/ order_broadcast
    \/ order_resume

SpecOrder == OrderInit /\ [][NextOrder]_vars

\* C31: every subscriber receives the events of its namespace in the
\* order in which their broadcasts were begun, under every interleaving of
\* the broadcasts at their await points.
C31_DeliveryOrder ==
    \A w \in OrderSockets :
        \A k, l \in DOMAIN track.received[w] :
            k < l => track.received[w][k] < track.received[w][l]

\* ------------------------------------------------------------------------
\* storage/sqlite_backend.py: the full-text index memories_fts, an FTS5
\* table over the columns content, tags and namespace of memories, kept by
\* the triggers memories_ai, memories_ad and memories_au.  The index is
\* modelled as the set of the entries written and not deleted; the
\* 'delete' command removes the entry that has the given rowid and values.
\* ------------------------------------------------------------------------
FtsEntryOf(id, row) ==
    [rowid |-> id, content |-> row.content, tags |-> row.tags,
     namespace |-> row.namespace]

\* the rows a call has inserted, deleted and updated, d being the table
\* before the call and e the table after it
RowsInserted(d, e) == DOMAIN e.rows \ DOMAIN d.rows
RowsDeleted(d, e) == DOMAIN d.rows \ DOMAIN e.rows
RowsUpdated(d, e) ==
    {i \in DOMAIN d.rows \cap DOMAIN e.rows : d.rows[i] # e.rows[i]}

\* fts_triggers with a memories_au that deletes the entry of the new values
fts_triggers_delete_new(fts, d, e) ==
    ((fts \ {FtsEntryOf(i, d.rows[i]) : i \in RowsDeleted(d, e)})
          \ {FtsEntryOf(i, e.rows[i]) : i \in RowsUpdated(d, e)})
       \cup {FtsEntryOf(i, e.rows[i]) :
                i \in RowsInserted(d, e) \cup RowsUpdated(d, e)}

\* the triggers fired by the statements of a call: memories_ad removes the
\* entry of old.*, memories_ai adds the entry of new.*, memories_au does
\* both; the UPDATEs of one call on a row follow one another, each
\* removing the entry the one before has added
fts_triggers(fts, d, e) ==
    (fts \ {FtsEntryOf(i, d.rows[i]) :
               i \in RowsDeleted(d, e) \cup RowsUpdated(d, e)})
       \cup {FtsEntryOf(i, e.rows[i]) :
                i \in RowsInserted(d, e) \cup RowsUpdated(d, e)}

\* ------------------------------------------------------------------------
\* SpecFts: one store and its full-text index (track) under store,
\* duplicate store, get, update, update_embedding, delete, cleanup_expired
\* and prune
\* ------------------------------------------------------------------------
MaxFtsSeq == 2          \* AUTOINCREMENT ids explored
MaxFtsAccess == 2       \* access_count explored

\* the namespace and the tags (as JSON text) a memory is stored with
FtsLabels == {<<"default", "[]">>, <<"n1", "[\"t\"]">>}

FtsEntry(content, ns, tags, ttl, t) ==
    TimedEntry(content, 3, ns, ttl, t)
        @@ [embedding |-> NoEmbedding, tags |-> tags]

FtsInit ==
    /\ db = EmptyDb
    /\ now = Instants[1]
    /\ call = NoCall
    /\ ret = NoRet
    /\ CLOUD_MODE = FALSE
    /\ world = EmptyWorld
    /\ alone = <<>>
    /\ saver = <<>>
    /\ mono = 0
    /\ track = {}
    /\ threads = <<>>

FtsFrame == UNCHANGED <<CLOUD_MODE, world, alone, saver, mono, threads>>

\* the call has taken the table to e: the commit, with the index
FtsCommit(e, op) ==
    /\ \A i \in DOMAIN e.rows : e.rows[i].access_count <= MaxFtsAccess
    /\ e.seq <= MaxFtsSeq
    /\ db' = e
    /\ track' = fts_triggers(track, db, e)
    /\ call' = [op |-> IF op = "update" THEN op ELSE "call",
                 rewritten |-> \E i \in RowsUpdated(db, e) :
                                  db.rows[i].content # e.rows[i].content]
    /\ UNCHANGED now
    /\ FtsFrame

fts_store_call ==
    \E c \in Contents, label \in FtsLabels :
      \E ttl \in PrioTtlDays[c] :
        LET r == store(db, FtsEntry(c, label[1], label[2], ttl, now), now)
        IN  ret' = r.ret /\ FtsCommit(Stamped(db, r.db, now), "store")

fts_get_call ==
    \E id \in 1..MaxFtsSeq :
        LET r == get(db, id, now)
        IN  ret' = r.ret /\ FtsCommit(Stamped(db, r.db, now), "get")

fts_update_call ==
    \E id \in 1..MaxFtsSeq, c \in Contents :
        LET r == update(db, id, [content |-> c, importance |-> NoImportance],
                        now)
        IN  ret' = r.ret /\ FtsCommit(Stamped(db, r.db, now), "update")

fts_update_embedding_call ==
    \E id \in DOMAIN db.rows :
        /\ ret' = NoRet
        /\ FtsCommit(UpdateEmbeddings(db, <<id>>), "update_embedding")

fts_delete_call ==
    \E id \in 1..MaxFtsSeq :
        LET r == delete(db, id)
        IN  ret' = r.ret /\ FtsCommit(r.db, "delete")

fts_cleanup_expired_call ==
    \E ns \in Namespaces :
        LET r == delete_expired(db, ns, now)
        IN  ret' = r.ret /\ FtsCommit(r.db, "cleanup_expired")

fts_prune_call ==
    \E days \in PruneDays, min_importance \in PruneImportances,
       ns \in Namespaces :
        LET r == prune(db, days, min_importance, ns, now)
        IN  ret' = r.ret /\ FtsCommit(r.db, "prune")

fts_advance ==
    /\ \E k \in 1..(Len(Instants) - 1) :
          now = Instants[k] /\ now' = Instants[k + 1]
    /\ call' = [op |-> "call", rewritten |-> FALSE]
    /\ ret' = NoRet
    /\ UNCHANGED <<db, track>>
    /\ FtsFrame

NextFts ==
    \/ fts_store_call
    \/ fts_get_call
    \/ fts_update_call
    \/ fts_update_embedding_call
    \/ fts_delete_call
    \/ fts_cleanup_expired_call
    \/ fts_prune_call
    \/ fts_advance

SpecFts == FtsInit /\ [][NextFts]_vars

\* C32: after every call the full-text index holds exactly one entry per
\* memory row, with the row's current content, tags and namespace: no
\* entry of a removed memory and no entry of a content a memory no longer
\* has.
C32_FtsLockstep ==
    track = {FtsEntryOf(i, db.rows[i]) : i \in DOMAIN db.rows}

\* an update has changed the content of a memory while another memory had
\* been removed before
C32_Witness ==
    /\ call.op = "update"
    /\ call.rewritten
    /\ db.seq > Cardinality(DOMAIN db.rows)

\* ------------------------------------------------------------------------
\* server/middleware.py: the sliding window and RateLimitMiddleware.
\* time.monotonic() is counted in ticks, TicksPerSecond of them a second.
\* ------------------------------------------------------------------------
TicksPerSecond == 2
RatePro == 2            \* stands for PRO.requests_per_second (50)
RateEnterprise == 1     \* stands for ENTERPRISE.requests_per_second (200)
RateFree == 1           \* stands for FREE.requests_per_second (5)

\* get_tier(tier).requests_per_second
requests_per_second(tier) ==
    IF tier = "enterprise" THEN RateEnterprise
    ELSE IF tier = "pro" THEN RatePro
    ELSE RateFree

\* _SlidingWindow.check(user_id, limit) at time t, window_seconds = 1:
\* the windows after the call, with the stale hits of the user pruned, and
\* whether the request is allowed
check(windows, user_id, limit, t) ==
    LET hits == SelectSeq(windows[user_id],
                          LAMBDA h : h > t - TicksPerSecond)
        pruned == [windows EXCEPT ![user_id] = hits]
    IN  IF limit <= 0 THEN [windows |-> windows, allowed |-> TRUE]
        ELSE IF Len(hits) >= limit
        THEN [windows |-> pruned, allowed |-> FALSE]
        ELSE [windows |-> [pruned EXCEPT ![user_id] = Append(@, t)],
              allowed |-> TRUE]

\* the paths of the requests: the routes under /v1/auth, /v1/health, and
\* the other routes
RatePaths == {"/v1/auth/me", "/v1/health", "/v1/memories"}

\* an HTTPException raised by dispatch is raised outside the exception
\* handlers of the application, which stand inside the middlewares: the
\* server's error handler answers 500 with none of the exception's headers
RaisedInMiddleware(status_code) ==
    [status |-> 500, retry_after |-> FALSE, reached |-> FALSE]

\* RateLimitMiddleware.dispatch in cloud mode for a request whose
\* request.state.auth_user is user (inject_auth_user sets it for the
\* authenticated requests of every path but /v1/auth..., /v1/demo... and
\* /v1/health)
dispatch(windows, user, path, t) ==
    IF path \in {"/v1/auth/me", "/v1/health"}
    THEN [windows |-> windows,
          resp |-> [status |-> 200, retry_after |-> FALSE, reached |-> TRUE]]
    ELSE LET r == check(windows, user.id, requests_per_second(user.tier), t)
         IN  IF r.allowed
             THEN [windows |-> r.windows,
                   resp |-> [status |-> 200, retry_after |-> FALSE,
                             reached |-> TRUE]]
             ELSE [windows |-> r.windows, resp |-> RaisedInMiddleware(429)]

\* ------------------------------------------------------------------------
\* SpecRate: authenticated requests of two users in cloud mode and the
\* passing of time.  world holds _limiter._windows, mono the clock, track
\* the requests made: user, path, time, response, and whether the request
\* added a hit to the window.
\* ------------------------------------------------------------------------
MaxRateMono == 3        \* ticks of the clock
MaxRateRequests == 4    \* requests made

RateInit ==
    /\ db = EmptyDb
    /\ now = Instants[1]
    /\ call = NoCall
    /\ ret = NoRet
    /\ CLOUD_MODE = TRUE
    /\ world = [windows |-> [u \in UserIds |-> <<>>]]
    /\ alone = <<>>
    /\ saver = <<>>
    /\ mono = 0
    /\ track = <<>>
    /\ threads = <<>>

RateFrame == UNCHANGED <<db, now, ret, CLOUD_MODE, alone, saver, threads>>

rate_request ==
    \E u \in UserIds, path \in RatePaths :
        LET r == dispatch(world.windows, require_auth(u), path, mono)
        IN  /\ Len(track) < MaxRateRequests
            /\ world' = [world EXCEPT !.windows = r.windows]
            /\ track' = Append(track,
                          [user |-> u, path |-> path, t |-> mono,
                           resp |-> r.resp,
                           counted |-> r.windows[u] =
                               Append(SelectSeq(world.windows[u],
                                          LAMBDA h : h > mono - TicksPerSecond),
                                      mono)])
            /\ call' = [op |-> "request"]
            /\ UNCHANGED mono
            /\ RateFrame

rate_elapse ==
    /\ mono < MaxRateMono
    /\ mono' = mono + 1
    /\ call' = [op |-> "elapse"]
    /\ UNCHANGED <<world, track>>
    /\ RateFrame

NextRate ==
    \/ rate_request
    \/ rate_elapse

SpecRate == RateInit /\ [][NextRate]_vars

\* the requests of user u that reached their handler at a time in t0..t1
Admitted(u, t0, t1) ==
    {k \in DOMAIN track :
        /\ track[k].user = u
        /\ track[k].resp.reached
        /\ t0 <= track[k].t /\ track[k].t <= t1}

\* C33: for every user whose tier allows L > 0 requests per second at most
\* L of the user's requests reach their handler within any interval
\* shorter than one second; every request is either admitted or answered
\* 429 with Retry-After, and a rejected request neither reaches its handler
\* nor adds a hit to the window.
C33_RateLimit ==
    /\ \A u \in UserIds, t0 \in 0..MaxRateMono :
          requests_per_second(TierOf[u]) > 0 =>
              Cardinality(Admitted(u, t0, t0 + TicksPerSecond - 1))
                 <= requests_per_second(TierOf[u])
    /\ \A k \in DOMAIN track :
          \/ track[k].resp.reached /\ track[k].resp.status = 200
          \/ /\ track[k].resp.status = 429
             /\ track[k].resp.retry_after
             /\ ~track[k].resp.reached
             /\ ~track[k].counted

\* ------------------------------------------------------------------------
\* autosave.py: AutoSave.checkpoint when save_checkpoint raises
\* ------------------------------------------------------------------------
\* checkpoint_raising with the counters reset before the save
checkpoint_raising_reset_first(s, d, reason, t, wall, found, inserted) ==
    [saver |-> reset_counters(s, reason, t),
     db |-> IF found = 0 /\ inserted THEN InsertSession(d, s.project, wall)
            ELSE d,
     ret |-> [raised |-> TRUE]]

\* AutoSave.checkpoint(reason) in which self._session.save_checkpoint
\* raises (the database is locked, the disk is full): the statements after
\* the call are not executed and the exception leaves checkpoint.  The
\* session that _get_or_create_session has committed (inserted) stays.
checkpoint_raising(s, d, reason, t, wall, found, inserted) ==
    [saver |-> s,
     db |-> IF found = 0 /\ inserted THEN InsertSession(d, s.project, wall)
            ELSE d,
     ret |-> [raised |-> TRUE]]

\* ------------------------------------------------------------------------
\* SpecFault: one AutoSave instance whose checkpoints succeed or fail
\* ------------------------------------------------------------------------
checkpoint_raising_call ==
    \E reason \in Reasons, found \in SessionChoices(db, saver.project),
       inserted \in BOOLEAN :
        LET r == checkpoint_raising(saver, db, reason, mono, now, found,
                                    inserted)
        IN  /\ Running
            /\ saver' = r.saver
            /\ db' = r.db
            /\ track' = track
            /\ call' = [op |-> "checkpoint_raising", reason |-> reason,
                        delta |-> saver.delta]
            /\ ret' = r.ret
            /\ UNCHANGED mono
            /\ AutoFrame

NextFault ==
    \/ track_store_call
    \/ track_update_call
    \/ track_delete_call
    \/ track_link_call
    \/ track_message_call
    \/ checkpoint_call
    \/ checkpoint_raising_call
    \/ Elapse

SpecFault == AutoInit /\ [][NextFault]_vars

\* C34: when the save_checkpoint called by checkpoint raises, the error
\* reaches the caller and delta, message_count, last_save_at,
\* total_checkpoints and last_trigger of the instance are unchanged; the
\* delta holds at all times the ids tracked since the checkpoint written
\* last, and the next checkpoint that is written records them.
C34_FailedCheckpoint ==
    /\ [](total_changes(saver.delta) = track.ids)
    /\ [][call'.op = "checkpoint_raising" =>
             /\ ret'.raised
             /\ saver'.delta = saver.delta
             /\ saver'.message_count = saver.message_count
             /\ saver'.last_save_at = saver.last_save_at
             /\ saver'.total_checkpoints = saver.total_checkpoints
             /\ saver'.last_trigger = saver.last_trigger]_vars
    /\ [][call'.op = "checkpoint" =>
             db'.checkpoints[Len(db'.checkpoints)].key_facts.delta
                = saver.delta]_vars

\* a checkpoint has failed after its session was inserted, with an id
\* tracked and a message counted
C34_Witness ==
    /\ call.op = "checkpoint_raising"
    /\ ret.raised
    /\ total_changes(saver.delta) = 1
    /\ saver.message_count = 1
    /\ Len(db.sessions) = 1
    /\ Len(db.checkpoints) = 0

\* C35: the value returned by checkpoint, and by a tick that saves, carries
\* a delta whose four lists are the ids tracked since the previous
\* checkpoint, in tracking order, and whose total_changes is the sum of
\* their lengths; the reset that follows does not alter the lists returned.
C35_ReturnedDelta ==
    [][(call'.op \in {"checkpoint", "tick"} /\ ret' # NoCheckpoint) =>
          /\ ret'.delta.lists = saver.delta
          /\ ret'.delta.total_changes = total_changes(saver.delta)]_vars

\* C37: for any sequence of track_*, tick, checkpoint and configure calls,
\* after a tick made with autosave enabled and message_threshold >= 1,
\* message_count < message_threshold; a tick made while autosave is
\* disabled writes no checkpoint and returns None.
C37_TickBound ==
    [][call'.op = "tick" =>
          /\ (saver.config.enabled /\ saver.config.message_threshold >= 1)
                => saver'.message_count < saver'.config.message_threshold
          /\ ~saver.config.enabled
                => /\ ret' = NoCheckpoint
                   /\ db' = db
                   /\ saver'.message_count = saver.message_count + 1]_vars

\* a tick saved for the message count after configure and track_message
\* calls had left message_count at the threshold
C37_Witness ==
    /\ call.op = "tick"
    /\ ~call.clean
    /\ call.ram_pct = None
    /\ ret # NoCheckpoint
    /\ ret.reason = "message_threshold"
    /\ saver.config.enabled
    /\ saver.message_count = 0

\* C36: whenever store(content c, namespace n) returns, with a new id or as
\* a duplicate, list(namespace=n) returns a memory with content c that has
\* not expired, also when an earlier copy of c has expired and has not been
\* removed.
C36_StoreReadable ==
    call.op = "store" =>
        \E m \in list_memories(db, "default", now).ret.shown :
            m.content = call.content /\ ~ExpiredAt(m, now)

\* C38: a change event produced by a request of one tenant is delivered
\* only to the connections of that tenant: a websocket opened with the
\* valid credential of a tenant receives no event of another tenant's
\* write, also when both use a namespace of the same name.
C38_TenantEvents ==
    \A w \in DOMAIN track.cred :
        Authentic(track.cred[w]) =>
            \A event \in track.received[w] :
                event.user = track.cred[w].user

\* C39: update(id, fields) that returns the memory changes, on memory id,
\* only the fields named in the patch, content_hash when content is
\* patched, and the access bookkeeping of one read (access_count raised by
\* exactly 1, accessed_at refreshed), and changes no other memory.
C39_UpdateFrame ==
    [][(/\ call'.op = "update"
        /\ call'.id \in DOMAIN db.rows
        /\ ~ret'.raised
        /\ ret'.shown # {})
       => LET id == call'.id
              old == db.rows[id]
              patched ==
                  [old EXCEPT
                     !.content = IF call'.content # NoContent
                                 THEN call'.content ELSE @,
                     !.content_hash = IF call'.content # NoContent
                                      THEN content_hash(call'.content)
                                      ELSE @,
                     !.importance = IF call'.importance # NoImportance
                                    THEN call'.importance ELSE @,
                     !.access_count = @ + 1]
          IN  /\ DOMAIN db'.rows = DOMAIN db.rows
              /\ \A f \in DOMAIN old \ {"accessed_at"} :
                    db'.rows[id][f] = patched[f]
              /\ \A j \in DOMAIN db.rows \ {id} :
                    db'.rows[j] = db.rows[j]]_vars

\* a memory that a read may return at the instant t: it exists and its
\* expires_at is unset or later than t
Readable(d, i, t) == i \in DOMAIN d.rows /\ ~ExpiredAt(d.rows[i], t)

\* a link of d joins i and j in either direction (of relation rel when a
\* relation filter is passed)
Joined(d, i, j, rel) ==
    \E l \in DOMAIN d.links :
        /\ rel # NoRelation => d.links[l].relation = rel
        /\ \/ d.links[l].source_id = i /\ d.links[l].target_id = j
           \/ d.links[l].source_id = j /\ d.links[l].target_id = i

\* the readable memories joined to root by a path of at most k links
\* through readable memories
RECURSIVE Within(_, _, _, _, _)
Within(d, root, rel, t, k) ==
    IF ~Readable(d, root, t) THEN {}
    ELSE IF k = 0 THEN {root}
    ELSE LET near == Within(d, root, rel, t, k - 1)
         IN  near \cup {j \in DOMAIN d.rows :
                          /\ Readable(d, j, t)
                          /\ \E i \in near : Joined(d, i, j, rel)}

\* C40: the depth get_graph reports for a node is the length of the
\* shortest path from the root to it over links followed in either
\* direction (of the given relation when a filter is passed) through
\* readable memories, and the nodes returned are exactly the readable
\* memories at such a distance <= min(max_depth, 5).
C40_GraphDistance ==
    call.op = "get_graph" =>
        /\ \A n \in DOMAIN ret.nodes :
              LET node == ret.nodes[n]
              IN  /\ node.id \in Within(db, call.root, call.relation, now,
                                        node.depth)
                  /\ node.depth > 0 =>
                        node.id \notin Within(db, call.root, call.relation,
                                              now, node.depth - 1)
        /\ NodeIds(ret) = Within(db, call.root, call.relation, now,
                                 Min2(call.max_depth, 5))

====
